---- MODULE Spec2Model ----
(***************************************************************************)
(* Model of the aggregation layer of the loan-intelligence dashboard:      *)
(* DatabaseStorage (server/storage.ts) over the tables of shared/schema.   *)
(*                                                                         *)
(* Tables are state variables.  A table with a declared primary key is a   *)
(* set of records with distinct keys; daily_branch_performance, whose key  *)
(* is a generated uuid, is a bag of row contents (two rows with the same   *)
(* contents are two copies).  Only the columns that the modelled queries   *)
(* read are kept.  Amounts are whole shillings; SQL NUMERIC / JavaScript   *)
(* quotients are exact rationals [num, den] in lowest terms, so rounding   *)
(* in the last digits of a quotient is not modelled.                       *)
(***************************************************************************)
EXTENDS Integers, Sequences, FiniteSets, Bags, TLC

VARIABLES branches, customers, loans, dailyBranchPerformance,
          aiCustomerFeatures, fraudSignals, officers, response, now, http,
          groqApiKey, loader, replitBatches, supabaseBatches, writes

storeVars == <<branches, customers, loans, dailyBranchPerformance,
               aiCustomerFeatures, fraudSignals, officers>>

\* what lies outside the store, the clock and the answers: the environment of
\* the server
auxVars == <<groqApiKey, loader, replitBatches, supabaseBatches, writes>>

vars == <<storeVars, response, now, http, auxVars>>

(***************************************************************************)
(* Bounds of the exploration.                                              *)
(***************************************************************************)
MaxBranches == 2

MaxCustomers == 2

MaxDaily == 2

MaxLoans == 2

MaxAiFeatures == 1

MaxOfficers == 1

\* number of branches seeded in the ranking specification beyond the limit
RankExtra == 1

\* number of customers seeded in the alerts specification beyond the limit
AlertExtra == 1

\* number of customers seeded in the fraud specification beyond the limit
FraudExtra == 1

MaxFraudSignals == 1

\* longest query of a request to the insights endpoint
MaxQueryLen == 2

DefaultConfidence == 85

LowConfidence == 50

HighConfidence == 92

\* number of full batches in the longest CSV file
MaxBatches == 2

BATCH_SIZE == 500

\* number of runs of init-db.ts
MaxRuns == 2

batchSize == 500

SeedCustomerCount == 100

SeedLoansPerCustomer == 2

SeedCompletedEvery == 5

SeedFraudEvery == 10

\* the days from 2024-01-01 to 2024-11-01
SeedDays == 306

\* last reading of the database clock
MaxClock == 1

(***************************************************************************)
(* Program constants.                                                      *)
(***************************************************************************)
\* .limit(10) of the topBranches query
TopBranchLimit == 10

\* .limit(10) of the recentAlerts query
AlertLimit == 10

\* riskScore0100 >= 40 in the recentAlerts query
AlertThreshold == 40

\* .limit(50) of getFraudCases
FraudLimit == 50

\* riskScore0100 >= 70 of the 'high' band, < 70 of the 'medium' band
HighRisk == 70

\* riskScore0100 >= 40 of the 'medium' band, < 40 of the 'low' band
MediumRisk == 40

(***************************************************************************)
(* Value domains of the inputs.                                            *)
(***************************************************************************)
Regions == {"Nairobi", "Western"}

BranchNames == {"Branch"}

LoanStatuses == {"Active", "active", "completed"}

LoanAmounts == {5000, 9000}

\* the customers that loans are written for
LoanCustomers == {1}

\* scores below, at and above the bounds of the risk bands
RiskScores == {30, 40, 69, 70}

\* contents of a daily row, less its branch
DailyProfiles ==
  { [date |-> 1, recruitedToday |-> 2, disbursedAmountKsh |-> 5000, dailyDuesKsh |-> 1000,
     collectedKsh |-> 800, arrearsNewKsh |-> 100, parPercent |-> 10, dailyTargetKsh |-> 1200],
    [date |-> 2, recruitedToday |-> 1, disbursedAmountKsh |-> 3000, dailyDuesKsh |-> 2000,
     collectedKsh |-> 1900, arrearsNewKsh |-> 300, parPercent |-> 40, dailyTargetKsh |-> 2000],
    [date |-> 1, recruitedToday |-> 0, disbursedAmountKsh |-> 0, dailyDuesKsh |-> 0,
     collectedKsh |-> 100, arrearsNewKsh |-> 0, parPercent |-> 0, dailyTargetKsh |-> 0] }

DailyRow(b, p) ==
  [branchId |-> b, date |-> p.date, recruitedToday |-> p.recruitedToday,
   disbursedAmountKsh |-> p.disbursedAmountKsh, dailyDuesKsh |-> p.dailyDuesKsh,
   collectedKsh |-> p.collectedKsh, arrearsNewKsh |-> p.arrearsNewKsh,
   parPercent |-> p.parPercent, dailyTargetKsh |-> p.dailyTargetKsh]

(***************************************************************************)
(* Arithmetic.                                                             *)
(***************************************************************************)
RECURSIVE GCD(_, _)
GCD(a, b) == IF b = 0 THEN a ELSE GCD(b, a % b)

\* the quotient n / d (n >= 0, d > 0) as a rational in lowest terms
Quot(n, d) == LET g == GCD(n, d) IN [num |-> n \div g, den |-> d \div g]

Zero == [num |-> 0, den |-> 1]

Times100(q) == Quot(q.num * 100, q.den)

Less(p, q) == p.num * q.den < q.num * p.den

Min(a, b) == IF a < b THEN a ELSE b

(***************************************************************************)
(* SQL aggregates over a set R of joined rows.  A joined row is a flat     *)
(* record of the columns of the joined tables, with n, the number of       *)
(* copies of the row, and hasDaily / hasCustomer, FALSE when the columns   *)
(* of that table are the NULLs of an unmatched LEFT JOIN.  An aggregate    *)
(* skips NULLs and is itself NULL over no value: [isNull, val].            *)
(***************************************************************************)
\* the sum of n * col over the rows, as the size of the bag that holds each
\* row n * col times
SumCol(R, col) ==
  BagCardinality([r \in {x \in R : x.n * x[col] > 0} |-> r.n * r[col]])

\* the sum of n over the rows
CountRows(R) == BagCardinality([r \in {x \in R : x.n > 0} |-> r.n])

DailyPart(R) == {r \in R : r.hasDaily}

\* SUM(<daily column>)
SqlSum(R, col) ==
  IF DailyPart(R) = {} THEN [isNull |-> TRUE, val |-> 0]
  ELSE [isNull |-> FALSE, val |-> SumCol(DailyPart(R), col)]

\* AVG(<daily column>)
SqlAvg(R, col) ==
  IF DailyPart(R) = {} THEN [isNull |-> TRUE, val |-> Zero]
  ELSE [isNull |-> FALSE, val |-> Quot(SumCol(DailyPart(R), col), CountRows(DailyPart(R)))]

\* COALESCE(x, d)
Coalesce(x, d) == IF x.isNull THEN d ELSE x.val

\* the value of an aggregate selected as it is; NULL is kept
Val(x) == IF x.isNull THEN [isNull |-> TRUE] ELSE x.val

\* the mean of the rows' own rates (collected / dues * 100, 0 for a row without
\* dues) in place of the ratio of the sums
RECURSIVE SumOfRowRates(_)
SumOfRowRates(R) ==
  IF R = {} THEN Zero
  ELSE LET r == CHOOSE x \in R : TRUE
           rest == SumOfRowRates(R \ {r})
           own == IF r.dailyDuesKsh > 0
                    THEN Quot(r.n * r.collectedKsh * 100, r.dailyDuesKsh) ELSE Zero
       IN  Quot(own.num * rest.den + rest.num * own.den, own.den * rest.den)

MeanOfRowRates(R) ==
  IF DailyPart(R) = {} THEN Zero
  ELSE LET t == SumOfRowRates(DailyPart(R))
       IN  Quot(t.num, t.den * CountRows(DailyPart(R)))

\* CASE WHEN SUM(dues) > 0 THEN (SUM(collected) / SUM(dues)) * 100 ELSE 0 END
\* (a NULL sum is not > 0, so the ELSE branch is taken)
SqlCollectionRate(R) ==
  LET dues == SqlSum(R, "dailyDuesKsh")
      coll == SqlSum(R, "collectedKsh")
  IN  IF ~dues.isNull /\ dues.val > 0
        THEN Times100(Quot(coll.val, dues.val))
        ELSE Zero

(***************************************************************************)
(* Joins.                                                                  *)
(***************************************************************************)
DailyKinds == BagToSet(dailyBranchPerformance)

NoDaily == DailyRow(0, [date |-> 0, recruitedToday |-> 0, disbursedAmountKsh |-> 0,
                        dailyDuesKsh |-> 0, collectedKsh |-> 0, arrearsNewKsh |-> 0,
                        parPercent |-> 0, dailyTargetKsh |-> 0])

Joined(b, hasD, d, n, hasC, c) ==
  [branchId |-> b.branchId, branchName |-> b.branchName, region |-> b.region,
   hasDaily |-> hasD, date |-> d.date, recruitedToday |-> d.recruitedToday,
   disbursedAmountKsh |-> d.disbursedAmountKsh, dailyDuesKsh |-> d.dailyDuesKsh,
   collectedKsh |-> d.collectedKsh, arrearsNewKsh |-> d.arrearsNewKsh,
   parPercent |-> d.parPercent, dailyTargetKsh |-> d.dailyTargetKsh,
   n |-> n, hasCustomer |-> hasC, customerId |-> c]

\* dailyBranchPerformance LEFT JOIN branches ON branchId: a daily row whose
\* branchId matches no branch is kept, with no name and no region
DailyLeftJoinBranches ==
  { Joined(b, TRUE, d, CopiesIn(d, dailyBranchPerformance), FALSE, 0) :
      <<b, d>> \in {x \in branches \X DailyKinds : x[1].branchId = x[2].branchId} }
  \cup
  { Joined([branchId |-> d.branchId, branchName |-> "", region |-> ""],
           TRUE, d, CopiesIn(d, dailyBranchPerformance), FALSE, 0) :
      d \in {x \in DailyKinds : \A b \in branches : b.branchId # x.branchId} }

\* dailyBranchPerformance INNER JOIN branches ON branchId
DailyInnerJoinBranches ==
  { Joined(b, TRUE, d, CopiesIn(d, dailyBranchPerformance), FALSE, 0) :
      <<b, d>> \in {x \in branches \X DailyKinds : x[1].branchId = x[2].branchId} }

\* an INNER JOIN in place of the LEFT JOIN: branches without daily rows drop out
BranchesInnerJoinDaily == DailyInnerJoinBranches

\* branches LEFT JOIN dailyBranchPerformance ON branchId
BranchesLeftJoinDaily ==
  DailyInnerJoinBranches \cup
  { Joined(b, FALSE, NoDaily, 1, FALSE, 0) :
      b \in {x \in branches : \A d \in DailyKinds : d.branchId # x.branchId} }

\* ... LEFT JOIN customers ON branches.branchId = customers.primaryBranch
LeftJoinCustomers(R) ==
  { [r EXCEPT !.hasCustomer = TRUE, !.customerId = c.customerId] :
      <<r, c>> \in {x \in R \X customers : x[1].branchId = x[2].primaryBranch} }
  \cup {r \in R : \A c \in customers : c.primaryBranch # r.branchId}

\* the rows of dailyBranchPerformance alone
DailyTable ==
  { Joined([branchId |-> d.branchId, branchName |-> "", region |-> ""],
           TRUE, d, CopiesIn(d, dailyBranchPerformance), FALSE, 0) : d \in DailyKinds }

(***************************************************************************)
(* getBranchPerformance(branchId, timeRange): timeRange is not read.       *)
(* The result has no ORDER BY and is modelled as the set of its records.   *)
(***************************************************************************)
AllBranches == 0

\* branchId === 'all': GROUP BY branchId, branchName, region over the inner join
PerformanceOfAll ==
  LET R == DailyInnerJoinBranches
      Keys == {<<r.branchId, r.branchName, r.region>> : r \in R}
      G(k) == {r \in R : <<r.branchId, r.branchName, r.region>> = k}
  IN  { [branchId |-> k[1], branchName |-> k[2], region |-> k[3],
         dailyTarget |-> Val(SqlAvg(G(k), "dailyTargetKsh")),
         dailyCollected |-> Val(SqlAvg(G(k), "collectedKsh")),
         disbursedAmount |-> Val(SqlSum(G(k), "disbursedAmountKsh")),
         arrearsAmount |-> Val(SqlSum(G(k), "arrearsNewKsh")),
         parPercent |-> Val(SqlAvg(G(k), "parPercent")),
         collectionRate |-> SqlCollectionRate(G(k)),
         recruitedToday |-> Val(SqlSum(G(k), "recruitedToday"))] : k \in Keys }

\* the by-id select with SUM where the 'all' select has AVG of collectedKsh
PerformanceOfBranchSummed(id) ==
  LET R == {r \in DailyInnerJoinBranches : r.branchId = id}
      Keys == {<<r.branchId, r.branchName, r.region>> : r \in R}
      G(k) == {r \in R : <<r.branchId, r.branchName, r.region>> = k}
  IN  { [branchId |-> k[1], branchName |-> k[2], region |-> k[3],
         dailyTarget |-> Val(SqlAvg(G(k), "dailyTargetKsh")),
         dailyCollected |-> Quot(SqlSum(G(k), "collectedKsh").val, 1),
         disbursedAmount |-> Val(SqlSum(G(k), "disbursedAmountKsh")),
         arrearsAmount |-> Val(SqlSum(G(k), "arrearsNewKsh")),
         parPercent |-> Val(SqlAvg(G(k), "parPercent")),
         collectionRate |-> SqlCollectionRate(G(k)),
         recruitedToday |-> Val(SqlSum(G(k), "recruitedToday"))] : k \in Keys }

\* otherwise: the same select with WHERE dailyBranchPerformance.branchId = branchId
PerformanceOfBranch(id) ==
  LET R == {r \in DailyInnerJoinBranches : r.branchId = id}
      Keys == {<<r.branchId, r.branchName, r.region>> : r \in R}
      G(k) == {r \in R : <<r.branchId, r.branchName, r.region>> = k}
  IN  { [branchId |-> k[1], branchName |-> k[2], region |-> k[3],
         dailyTarget |-> Val(SqlAvg(G(k), "dailyTargetKsh")),
         dailyCollected |-> Val(SqlAvg(G(k), "collectedKsh")),
         disbursedAmount |-> Val(SqlSum(G(k), "disbursedAmountKsh")),
         arrearsAmount |-> Val(SqlSum(G(k), "arrearsNewKsh")),
         parPercent |-> Val(SqlAvg(G(k), "parPercent")),
         collectionRate |-> SqlCollectionRate(G(k)),
         recruitedToday |-> Val(SqlSum(G(k), "recruitedToday"))] : k \in Keys }

BranchPerformanceResult(branchId) ==
  IF branchId = AllBranches THEN PerformanceOfAll ELSE PerformanceOfBranch(branchId)

(***************************************************************************)
(* getRegionalMetrics: branches LEFT JOIN daily LEFT JOIN customers,       *)
(* GROUP BY branches.region.  No ORDER BY: the set of its records.         *)
(***************************************************************************)
RegionalJoin == LeftJoinCustomers(BranchesLeftJoinDaily)

RegionalMetricsResult ==
  LET R == RegionalJoin
      G(reg) == {r \in R : r.region = reg}
  IN  { [region |-> reg,
         totalBranches |-> Cardinality({r.branchId : r \in G(reg)}),
         totalDisbursed |-> Coalesce(SqlSum(G(reg), "disbursedAmountKsh"), 0),
         totalCollected |-> Coalesce(SqlSum(G(reg), "collectedKsh"), 0),
         collectionRate |-> SqlCollectionRate(G(reg)),
         avgParPercent |-> Coalesce(SqlAvg(G(reg), "parPercent"), Zero),
         activeCustomers |->
           Cardinality({r.customerId : r \in {x \in G(reg) : x.hasCustomer}})] :
        reg \in {r.region : r \in R} }

(***************************************************************************)
(* ORDER BY ... DESC LIMIT n.  Rows of equal sort key come out in an order *)
(* SQL leaves open; the model draws it from TieOrders (by key ascending or *)
(* descending).                                                            *)
(***************************************************************************)
TieOrders == {"asc", "desc"}

TieKey(tie, id) == IF tie = "asc" THEN id ELSE 0 - id

Limit(seq, n) == SubSeq(seq, 1, Min(n, Len(seq)))

(***************************************************************************)
(* getDashboardMetrics.  The fixed fields (the *Change figures, trendData) *)
(* are left out.                                                           *)
(***************************************************************************)
RECURSIVE SumAmount(_)
SumAmount(L) ==
  IF L = {} THEN 0
  ELSE LET l == CHOOSE x \in L : TRUE IN l.amount + SumAmount(L \ {l})

\* every loan not completed, in place of the loans whose status is 'Active'
NotCompletedLoans == {l \in loans : l.loanStatus # "completed"}

\* eq(loans.loanStatus, 'Active')
ActiveLoans == {l \in loans : l.loanStatus = "Active"}

\* COALESCE(SUM(amount), 0), COUNT(*) over the active loans
DisbursedResult == [total |-> SumAmount(ActiveLoans), count |-> Cardinality(ActiveLoans)]

\* the sums and the average over all of dailyBranchPerformance
CollectionResult ==
  [totalDues |-> Coalesce(SqlSum(DailyTable, "dailyDuesKsh"), 0),
   totalCollected |-> Coalesce(SqlSum(DailyTable, "collectedKsh"), 0),
   totalArrears |-> Coalesce(SqlSum(DailyTable, "arrearsNewKsh"), 0),
   avgPar |-> Coalesce(SqlAvg(DailyTable, "parPercent"), Zero)]

\* totalDues > 0 ? (totalCollected / totalDues) * 100 : 0
DashboardCollectionRate ==
  LET result == CollectionResult
  IN  IF result.totalDues > 0
        THEN Times100(Quot(result.totalCollected, result.totalDues))
        ELSE Zero

\* one record per branch: branches LEFT JOIN daily, GROUP BY the branch
BranchRanking ==
  LET R == BranchesLeftJoinDaily
      Keys == {<<r.branchId, r.branchName, r.region>> : r \in R}
      G(k) == {r \in R : <<r.branchId, r.branchName, r.region>> = k}
  IN  { [branchId |-> k[1], branchName |-> k[2], region |-> k[3],
         disbursedAmount |-> Coalesce(SqlSum(G(k), "disbursedAmountKsh"), 0),
         collectionRate |-> SqlCollectionRate(G(k))] : k \in Keys }

\* ORDER BY the collection rate ascending
RankBeforeAscending(tie, x, y) ==
  \/ Less(x.collectionRate, y.collectionRate)
  \/ /\ x.collectionRate = y.collectionRate
     /\ TieKey(tie, x.branchId) < TieKey(tie, y.branchId)

\* ORDER BY the collection rate DESC
RankBefore(tie, x, y) ==
  \/ Less(y.collectionRate, x.collectionRate)
  \/ /\ x.collectionRate = y.collectionRate
     /\ TieKey(tie, x.branchId) < TieKey(tie, y.branchId)

\* the ranking as a sequence, x before y when RankBefore(tie, x, y)
SortedRanking(tie) ==
  LET F[T \in SUBSET BranchRanking] ==
        IF T = {} THEN <<>>
        ELSE LET m == CHOOSE x \in T : \A y \in T \ {x} : RankBefore(tie, x, y)
             IN  <<m>> \o F[T \ {m}]
  IN  F[BranchRanking]

TopBranches(tie) == Limit(SortedRanking(tie), TopBranchLimit)

Severity(score) ==
  IF score >= 70 THEN "high" ELSE IF score >= AlertThreshold THEN "medium" ELSE "low"

\* customers INNER JOIN aiCustomerFeatures WHERE riskScore0100 >= 40; the
\* timestamp column is NOW()
AlertRows ==
  { [customerId |-> c.customerId, riskScore |-> a.riskScore0100,
     severity |-> Severity(a.riskScore0100), timestamp |-> now] :
      <<c, a>> \in {x \in customers \X aiCustomerFeatures :
                      /\ x[1].customerId = x[2].customerId
                      /\ x[2].riskScore0100 >= AlertThreshold} }

\* ORDER BY riskScore0100 ascending
AlertBeforeAscending(tie, x, y) ==
  \/ x.riskScore < y.riskScore
  \/ /\ x.riskScore = y.riskScore
     /\ TieKey(tie, x.customerId) < TieKey(tie, y.customerId)

\* ORDER BY riskScore0100 DESC
AlertBefore(tie, x, y) ==
  \/ x.riskScore > y.riskScore
  \/ /\ x.riskScore = y.riskScore
     /\ TieKey(tie, x.customerId) < TieKey(tie, y.customerId)

\* the alerts as a sequence, x before y when AlertBefore(tie, x, y): each row
\* stands at the place given by the number of rows before it
SortedAlerts(tie) ==
  LET S == AlertRows
      placed == {<<1 + Cardinality({y \in S : AlertBefore(tie, y, x)}), x>> : x \in S}
  IN  [i \in 1..Cardinality(S) |-> (CHOOSE p \in placed : p[1] = i)[2]]

\* the selected columns: the score orders the rows and is not among them
Alert(r) == [customerId |-> r.customerId, severity |-> r.severity, timestamp |-> r.timestamp]

RecentAlerts(tie) ==
  LET sorted == Limit(SortedAlerts(tie), AlertLimit)
  IN  [i \in 1..Len(sorted) |-> Alert(sorted[i])]

DashboardMetrics(tieB, tieA) ==
  LET collectionResult == CollectionResult
  IN  [totalDisbursed |-> DisbursedResult.total,
       collectionRate |-> DashboardCollectionRate,
       totalArrears |-> collectionResult.totalArrears,
       parRate |-> collectionResult.avgPar,
       activeCustomers |-> Cardinality(customers),
       activeLoans |-> Cardinality(ActiveLoans),
       topPerformingBranches |-> TopBranches(tieB),
       recentAlerts |-> RecentAlerts(tieA)]

(***************************************************************************)
(* getFraudCases.                                                          *)
(***************************************************************************)
\* riskFilter is optional: the value of a call that passes none
NoFilter == "undefined"

RiskFilters == {NoFilter, "high", "medium", "low"}

\* customers INNER JOIN aiCustomerFeatures LEFT JOIN fraudSignals, each on the
\* customer id: a row per customer, AI row and fraud signal, and one row with
\* no signal for a pair that has none
FraudJoin ==
  LET Pairs == {x \in customers \X aiCustomerFeatures : x[1].customerId = x[2].customerId}
      Signals(c) == {f \in fraudSignals : f.customerId = c.customerId}
  IN  { [customerId |-> x[1].customerId, primaryBranch |-> x[1].primaryBranch,
         riskScore |-> x[2].riskScore0100, hasSignal |-> TRUE, signal |-> f.customerId] :
          <<x, f>> \in {y \in Pairs \X fraudSignals : y[2] \in Signals(y[1][1])} }
      \cup
      { [customerId |-> x[1].customerId, primaryBranch |-> x[1].primaryBranch,
         riskScore |-> x[2].riskScore0100, hasSignal |-> FALSE, signal |-> 0] :
          x \in {y \in Pairs : Signals(y[1]) = {}} }

\* the bands of the 'medium' filter widened to include the score 70
MatchesFilterWide(riskFilter, r) ==
  IF riskFilter = "high" THEN r.riskScore >= HighRisk
  ELSE IF riskFilter = "medium" THEN r.riskScore >= MediumRisk /\ r.riskScore <= HighRisk
  ELSE IF riskFilter = "low" THEN r.riskScore < MediumRisk
  ELSE TRUE

\* the 'medium' band narrowed to exclude the score 40
MatchesFilterGap(riskFilter, r) ==
  IF riskFilter = "high" THEN r.riskScore >= HighRisk
  ELSE IF riskFilter = "medium" THEN r.riskScore > MediumRisk /\ r.riskScore < HighRisk
  ELSE IF riskFilter = "low" THEN r.riskScore < MediumRisk
  ELSE TRUE

\* the WHERE clause that the filter adds; any other value adds none
MatchesFilter(riskFilter, r) ==
  IF riskFilter = "high" THEN r.riskScore >= HighRisk
  ELSE IF riskFilter = "medium" THEN r.riskScore >= MediumRisk /\ r.riskScore < HighRisk
  ELSE IF riskFilter = "low" THEN r.riskScore < MediumRisk
  ELSE TRUE

FraudRows(riskFilter) == {r \in FraudJoin : MatchesFilter(riskFilter, r)}

\* ORDER BY riskScore0100 ascending
FraudBeforeAscending(tie, x, y) ==
  \/ x.riskScore < y.riskScore
  \/ /\ x.riskScore = y.riskScore
     /\ TieKey(tie, x.customerId) < TieKey(tie, y.customerId)

\* ORDER BY riskScore0100 DESC
FraudBefore(tie, x, y) ==
  \/ x.riskScore > y.riskScore
  \/ /\ x.riskScore = y.riskScore
     /\ TieKey(tie, x.customerId) < TieKey(tie, y.customerId)

\* the matching rows as a sequence, x before y when FraudBefore(tie, x, y):
\* each row stands at the place given by the number of rows before it
SortedFraud(riskFilter, tie) ==
  LET S == FraudRows(riskFilter)
      placed == {<<1 + Cardinality({y \in S : FraudBefore(tie, y, x)}), x>> : x \in S}
  IN  [i \in 1..Cardinality(S) |-> (CHOOSE p \in placed : p[1] = i)[2]]

\* the selected columns; lastLoanDate is NOW()
FraudCase(r) ==
  [customerId |-> r.customerId, riskScore |-> r.riskScore,
   primaryBranch |-> r.primaryBranch, lastLoanDate |-> now]

FraudCases(riskFilter, tie) ==
  LET sorted == Limit(SortedFraud(riskFilter, tie), FraudLimit)
  IN  [i \in 1..Len(sorted) |-> FraudCase(sorted[i])]

(***************************************************************************)
(* State machine.  response is what the last read returned; a write        *)
(* leaves no response behind.  now is the database clock that NOW() reads, *)
(* and http is the answer of the last request served by a route.           *)
(***************************************************************************)
BranchIds == 1..MaxBranches

CustomerIds == 1..MaxCustomers

LoanIds == 1..MaxLoans

\* the entity types of loadData, in the order of loading, by their tables
EntityTypes ==
  <<"branches",
    "officers",
    "customers",
    "loans",
    "repayments",
    "daily_branch_performance",
    "monthly_branch_summary",
    "officer_performance",
    "fraud_signals",
    "ai_customer_features">>

NumEntities == Len(EntityTypes)

Entities == 1..NumEntities

\* rows that a table held before the run
OldRows == [lo |-> 0, hi |-> 0]

NoBatches == [e \in Entities |-> {}]

OldBatches == [e \in Entities |-> {OldRows}]

Idle == [pc |-> "idle"]

\* A parameter of a request or of the environment is absent or given with a value.
Absent == [given |-> FALSE]

Given(v) == [given |-> TRUE, value |-> v]

NoResponse == [op |-> "none"]

NoRequest == [route |-> "none"]

Init ==
  /\ branches = {}
  /\ customers = {}
  /\ loans = {}
  /\ dailyBranchPerformance = EmptyBag
  /\ aiCustomerFeatures = {}
  /\ fraudSignals = {}
  /\ officers = {}
  /\ groqApiKey = Absent
  /\ loader = Idle
  /\ replitBatches = NoBatches
  /\ supabaseBatches = NoBatches
  /\ writes = <<>>
  /\ response = NoResponse
  /\ now = 0
  /\ http = NoRequest

\* Ids are opaque keys: an insert draws the least id not yet in its table, and
\* the primary key rejects a second row of the same id.

\* insert into branches
createBranch ==
  \E name \in BranchNames, reg \in Regions :
    LET id == Cardinality(branches) + 1 IN
    /\ id \in BranchIds
    /\ \A b \in branches : b.branchId # id
    /\ branches' = branches \cup {[branchId |-> id, branchName |-> name, region |-> reg]}
    /\ response' = NoResponse
    /\ UNCHANGED <<customers, loans, dailyBranchPerformance, aiCustomerFeatures, fraudSignals, now, http, officers, auxVars>>

\* insert into branches ... onConflictDoNothing, for the list of the branches 1..n
bulkInsertBranches ==
  \E n \in {TopBranchLimit, TopBranchLimit + RankExtra}, name \in BranchNames, reg \in Regions :
    LET branchList == {[branchId |-> id, branchName |-> name, region |-> reg] : id \in 1..n} IN
    /\ \E x \in branchList : \A b \in branches : b.branchId # x.branchId
    /\ branches' = branches \cup
                     {x \in branchList : \A b \in branches : b.branchId # x.branchId}
    /\ response' = NoResponse
    /\ UNCHANGED <<customers, loans, dailyBranchPerformance, aiCustomerFeatures, fraudSignals, now, http, officers, auxVars>>

\* insert into customers; primaryBranch is not a foreign key
createCustomer ==
  \E pb \in BranchIds :
    LET id == Cardinality(customers) + 1 IN
    /\ id \in CustomerIds
    /\ \A c \in customers : c.customerId # id
    /\ customers' = customers \cup {[customerId |-> id, primaryBranch |-> pb]}
    /\ response' = NoResponse
    /\ UNCHANGED <<branches, loans, dailyBranchPerformance, aiCustomerFeatures, fraudSignals, now, http, officers, auxVars>>

\* insert into loans
createLoan ==
  \E amt \in LoanAmounts, st \in LoanStatuses, c \in LoanCustomers :
    LET id == Cardinality(loans) + 1 IN
    /\ id \in LoanIds
    /\ \A l \in loans : l.loanId # id
    /\ loans' = loans \cup {[loanId |-> id, customerId |-> c, amount |-> amt,
                              loanStatus |-> st]}
    /\ response' = NoResponse
    /\ UNCHANGED <<branches, customers, dailyBranchPerformance, aiCustomerFeatures, fraudSignals, now, http, officers, auxVars>>

\* insert into dailyBranchPerformance; the key is a fresh uuid and branchId is
\* not a foreign key, so any row is accepted
createDailyBranchPerformance ==
  \E b \in BranchIds, p \in DailyProfiles :
    /\ BagCardinality(dailyBranchPerformance) < MaxDaily
    /\ dailyBranchPerformance' = dailyBranchPerformance (+) SetToBag({DailyRow(b, p)})
    /\ response' = NoResponse
    /\ UNCHANGED <<branches, customers, loans, aiCustomerFeatures, fraudSignals, now, http, officers, auxVars>>

\* the branches that the bulk insert writes daily rows for: the first, the
\* last within the ranking limit and the last of all
RankedIds == {1, TopBranchLimit, TopBranchLimit + RankExtra}

\* insert into dailyBranchPerformance ... onConflictDoNothing, for a list of one
\* row; no constraint of the table can conflict
bulkInsertDailyPerformance ==
  \E b \in RankedIds, p \in DailyProfiles :
    LET performanceList == <<DailyRow(b, p)>> IN
    /\ BagCardinality(dailyBranchPerformance) < MaxDaily
    /\ Len(performanceList) # 0
    /\ dailyBranchPerformance' = dailyBranchPerformance (+) SetToBag({performanceList[1]})
    /\ response' = NoResponse
    /\ UNCHANGED <<branches, customers, loans, aiCustomerFeatures, fraudSignals, now, http, officers, auxVars>>

\* insert into aiCustomerFeatures; customerId is the primary key, not a foreign key
createAiFeatures ==
  \E id \in CustomerIds, score \in RiskScores :
    /\ Cardinality(aiCustomerFeatures) < MaxAiFeatures
    /\ \A a \in aiCustomerFeatures : a.customerId # id
    /\ aiCustomerFeatures' = aiCustomerFeatures \cup {[customerId |-> id, riskScore0100 |-> score]}
    /\ response' = NoResponse
    /\ UNCHANGED <<branches, customers, loans, dailyBranchPerformance, fraudSignals, now, http, officers, auxVars>>

getDashboardMetrics ==
  \E tieB \in TieOrders, tieA \in TieOrders :
    /\ response' = [op |-> "getDashboardMetrics", value |-> DashboardMetrics(tieB, tieA)]
    /\ UNCHANGED <<storeVars, now, http, auxVars>>

getBranchPerformance ==
  \E branchId \in {AllBranches} \cup BranchIds :
    /\ response' = [op |-> "getBranchPerformance", branchId |-> branchId,
                    value |-> BranchPerformanceResult(branchId)]
    /\ UNCHANGED <<storeVars, now, http, auxVars>>

getRegionalMetrics ==
  /\ response' = [op |-> "getRegionalMetrics", value |-> RegionalMetricsResult]
  /\ UNCHANGED <<storeVars, now, http, auxVars>>

\* insert into customers ... onConflictDoNothing, for a list of the customers
\* 1..n of some size n; customers already stored are skipped
bulkInsertCustomers(Sizes) ==
  \E n \in Sizes :
    LET customerList == [i \in 1..n |-> [customerId |-> i, primaryBranch |-> 1]] IN
    /\ Len(customerList) # 0
    /\ customers' = customers \cup
         {customerList[i] : i \in {j \in 1..n : \A c \in customers : c.customerId # j}}
    /\ response' = NoResponse
    /\ UNCHANGED <<branches, loans, dailyBranchPerformance, aiCustomerFeatures,
                   fraudSignals, now, http, officers, auxVars>>

\* insert into aiCustomerFeatures ... onConflictDoNothing, for a list giving one
\* score to the customers 1..n; customers that have a row keep it
bulkInsertAiFeatures(Sizes) ==
  \E n \in Sizes, score \in RiskScores :
    LET featuresList == [i \in 1..n |-> [customerId |-> i, riskScore0100 |-> score]] IN
    /\ Len(featuresList) # 0
    /\ aiCustomerFeatures' = aiCustomerFeatures \cup
         {featuresList[i] : i \in {j \in 1..n : \A a \in aiCustomerFeatures : a.customerId # j}}
    /\ response' = NoResponse
    /\ UNCHANGED <<branches, customers, loans, dailyBranchPerformance,
                   fraudSignals, now, http, officers, auxVars>>

\* insert into fraudSignals; customerId is the primary key, not a foreign key
createFraudSignal ==
  LET id == Cardinality(fraudSignals) + 1 IN
    /\ id \in 1..MaxFraudSignals
    /\ \A f \in fraudSignals : f.customerId # id
    /\ fraudSignals' = fraudSignals \cup {[customerId |-> id]}
    /\ response' = NoResponse
    /\ UNCHANGED <<branches, customers, loans, dailyBranchPerformance,
                   aiCustomerFeatures, now, http, officers, auxVars>>

getFraudCases ==
  \E riskFilter \in RiskFilters, tie \in TieOrders :
    /\ response' = [op |-> "getFraudCases", riskFilter |-> riskFilter,
                    value |-> FraudCases(riskFilter, tie)]
    /\ UNCHANGED <<storeVars, now, http, auxVars>>

\* insert into officers
createOfficer ==
  LET id == Cardinality(officers) + 1 IN
    /\ id \in 1..MaxOfficers
    /\ \A o \in officers : o.officerId # id
    /\ officers' = officers \cup {[officerId |-> id, role |-> "Loan Officer"]}
    /\ response' = NoResponse
    /\ UNCHANGED <<branches, customers, loans, dailyBranchPerformance,
                   aiCustomerFeatures, fraudSignals, now, http, auxVars>>

\* the value returned in place of a row that does not exist
Null == [isNull |-> TRUE]

\* result[0] || null of a select with .limit(1)
FirstOrNull(rows) == IF rows = {} THEN Null ELSE CHOOSE r \in rows : TRUE

\* a select without the WHERE clause on the id
GetCustomerOfAny(customerId) == FirstOrNull(customers)

\* select from customers where customerId = $1 limit 1
GetCustomer(customerId) == FirstOrNull({c \in customers : c.customerId = customerId})

GetBranch(branchId) == FirstOrNull({b \in branches : b.branchId = branchId})

GetOfficer(officerId) == FirstOrNull({o \in officers : o.officerId = officerId})

GetAiFeatures(customerId) ==
  FirstOrNull({a \in aiCustomerFeatures : a.customerId = customerId})

\* select from loans where customerId = $1; the order of the rows is not read
GetLoansForCustomer(customerId) == {l \in loans : l.customerId = customerId}

getCustomer ==
  \E customerId \in CustomerIds :
    /\ response' = [op |-> "getCustomer", id |-> customerId, value |-> GetCustomer(customerId)]
    /\ UNCHANGED <<storeVars, now, http, auxVars>>

getBranch ==
  \E branchId \in BranchIds :
    /\ response' = [op |-> "getBranch", id |-> branchId, value |-> GetBranch(branchId)]
    /\ UNCHANGED <<storeVars, now, http, auxVars>>

getOfficer ==
  \E officerId \in 1..MaxOfficers :
    /\ response' = [op |-> "getOfficer", id |-> officerId, value |-> GetOfficer(officerId)]
    /\ UNCHANGED <<storeVars, now, http, auxVars>>

\* what a call of the storage made by a route came to: a row, null, or a throw
Outcome(value) == IF value = Null THEN "null" ELSE "row"

\* aiFeatures?.riskScore0100 || 0
RiskScoreOrZero(aiFeatures) == IF aiFeatures = Null THEN 0 ELSE aiFeatures.riskScore0100

\* GET /api/customers/:customerId.  Each of the three storage calls may throw
\* (throwsAt names it, 0 for none), which the handler answers with 500.
customerRoute ==
  \E customerId \in CustomerIds, throwsAt \in 0..3 :
    LET customer == GetCustomer(customerId)
        aiFeatures == GetAiFeatures(customerId)
        customerLoans == GetLoansForCustomer(customerId)
        call1 == [op |-> "getCustomer", customerId |-> customerId,
                  outcome |-> IF throwsAt = 1 THEN "throws" ELSE Outcome(customer)]
        call2 == [op |-> "getAiFeatures", customerId |-> customerId,
                  outcome |-> IF throwsAt = 2 THEN "throws" ELSE Outcome(aiFeatures)]
        call3 == [op |-> "getLoansForCustomer", customerId |-> customerId,
                  outcome |-> IF throwsAt = 3 THEN "throws" ELSE "row"]
        answer(status, invoked) ==
          [route |-> "/api/customers/:customerId", query |-> Given(customerId),
           status |-> status, invoked |-> invoked]
    IN  /\ http' =
             IF throwsAt = 1 THEN answer(500, <<call1>>)
             ELSE IF customer = Null THEN answer(404, <<call1>>)
             ELSE IF throwsAt = 2 THEN answer(500, <<call1, call2>>)
             ELSE IF throwsAt = 3 THEN answer(500, <<call1, call2, call3>>)
             ELSE [route |-> "/api/customers/:customerId", query |-> Given(customerId),
                   status |-> 200, invoked |-> <<call1, call2, call3>>,
                   body |-> [customerId |-> customer.customerId,
                             primaryBranch |-> customer.primaryBranch,
                             riskScore |-> RiskScoreOrZero(aiFeatures),
                             totalLoans |-> Cardinality(customerLoans),
                             activeLoans |->
                               Cardinality({l \in customerLoans : l.loanStatus = "Active"})]]
        /\ response' = NoResponse
        /\ UNCHANGED <<storeVars, now, auxVars>>

\* the riskFilter values a request may carry: the four filters, the empty
\* string and a value that is none of them
RiskFilterQueries ==
  {Absent} \cup {Given(v) : v \in {"", "all", "high", "medium", "low", "critical"}}

\* a list of filters that also admits 'critical'
ValidFiltersAndMore == {"all", "high", "medium", "low", "critical"}

\* const validFilters = ["all", "high", "medium", "low"]
ValidFilters == {"all", "high", "medium", "low"}

\* GET /api/fraud/cases.  The storage call may fail, which the handler
\* answers with 500.
fraudCasesRoute ==
  \E q \in RiskFilterQueries, tie \in TieOrders, ok \in BOOLEAN :
    LET riskFilter == IF q.given /\ q.value # "" THEN q.value ELSE "all"
        arg == IF riskFilter # "all" THEN riskFilter ELSE NoFilter
        cases == FraudCases(arg, tie)
    IN  /\ IF riskFilter \notin ValidFilters
             THEN /\ http' = [route |-> "/api/fraud/cases", query |-> q, status |-> 400,
                              invoked |-> <<>>]
                  /\ UNCHANGED response
             ELSE IF ok
               THEN /\ http' = [route |-> "/api/fraud/cases", query |-> q, status |-> 200,
                                invoked |-> <<[op |-> "getFraudCases", riskFilter |-> arg]>>,
                                body |-> cases]
                    /\ response' = [op |-> "getFraudCases", riskFilter |-> arg,
                                    value |-> cases]
               ELSE /\ http' = [route |-> "/api/fraud/cases", query |-> q, status |-> 500,
                                invoked |-> <<[op |-> "getFraudCases", riskFilter |-> arg]>>]
                    /\ response' = NoResponse
        /\ UNCHANGED <<storeVars, now, auxVars>>

\* the branchId values a request may carry: 'all' and the branch ids
BranchQueries == {Absent} \cup {Given(v) : v \in {AllBranches} \cup BranchIds}

\* GET /api/branches/performance; timeRange is passed on and not read
branchPerformanceRoute ==
  \E q \in BranchQueries, ok \in BOOLEAN :
    LET branchId == IF q.given THEN q.value ELSE AllBranches
        performance == BranchPerformanceResult(branchId)
    IN  /\ IF ok
             THEN /\ http' = [route |-> "/api/branches/performance", query |-> q,
                              status |-> 200,
                              invoked |-> <<[op |-> "getBranchPerformance",
                                             branchId |-> branchId]>>,
                              body |-> performance]
                  /\ response' = [op |-> "getBranchPerformance", branchId |-> branchId,
                                  value |-> performance]
             ELSE /\ http' = [route |-> "/api/branches/performance", query |-> q,
                              status |-> 500,
                              invoked |-> <<[op |-> "getBranchPerformance",
                                             branchId |-> branchId]>>]
                  /\ response' = NoResponse
        /\ UNCHANGED <<storeVars, now, auxVars>>

\* ---- POST /api/insights/query ----

\* a string as the sequence of its characters
Blank == " "

Chars == {Blank, "q"}

\* String.prototype.trim: leading and trailing whitespace removed
RECURSIVE TrimStart(_)
TrimStart(s) == IF s # <<>> /\ Head(s) = Blank THEN TrimStart(Tail(s)) ELSE s

RECURSIVE TrimEnd(_)
TrimEnd(s) ==
  IF s # <<>> /\ s[Len(s)] = Blank THEN TrimEnd(SubSeq(s, 1, Len(s) - 1)) ELSE s

Trim(s) == TrimEnd(TrimStart(s))

StringValue(s) == [type |-> "string", chars |-> s]

NumberValue(n) == [type |-> "number", number |-> n]

\* the query values of a request body: none, strings up to MaxQueryLen
\* characters, and numbers
Queries ==
  {Absent}
    \cup {Given(StringValue(s)) :
            s \in UNION {[1..n -> Chars] : n \in 0..MaxQueryLen}}
    \cup {Given(NumberValue(n)) : n \in {0, 7}}

\* !query || typeof query !== "string" || query.trim().length === 0
QueryRejected(q) ==
  \/ ~q.given
  \/ q.value.type = "number" /\ q.value.number = 0
  \/ q.value.type = "string" /\ q.value.chars = <<>>
  \/ q.value.type # "string"
  \/ Len(Trim(q.value.chars)) = 0

validAgentTypes == {"analysis", "fraud", "forecast", "messaging"}

AgentTypes == {Absent} \cup {Given(a) : a \in validAgentTypes \cup {"", "other"}}

\* !agentType || !validAgentTypes.includes(agentType)
AgentTypeRejected(a) == ~a.given \/ a.value = "" \/ a.value \notin validAgentTypes

\* the values of process.env.GROQ_API_KEY: unset, empty, a key
GroqApiKeys == {Absent, Given(""), Given("gsk")}

\* if (groqApiKey)
KeyConfigured(k) == k.given /\ k.value # ""

\* what the call of the chat-completion API can do: fetch rejects, the status
\* is not OK, the body is not JSON, the body carries no content, the content
\* is not a string, the content is a text with or without "[Error:" in it
GroqOutcomes ==
  {"fetchRejects", "notOk", "notJson", "noContent", "contentNotString",
   "content", "contentWithError"}

MockResponse == "mock response"

MockAfterError == "[Using mock response due to API error]"

InvalidGroqResponse == "[Error: Invalid response from Groq API]"

\* the inner try and catch, mutated: the error of the call is not caught
AfterGroqUncaught(outcome) ==
  IF outcome \in {"fetchRejects", "notOk", "notJson", "contentNotString"}
    THEN [status |-> 500]
    ELSE IF outcome = "noContent"
      THEN [status |-> 200, response |-> InvalidGroqResponse,
            confidence |-> LowConfidence]
      ELSE IF outcome = "contentWithError"
        THEN [status |-> 200, response |-> outcome, confidence |-> LowConfidence]
        ELSE [status |-> 200, response |-> outcome, confidence |-> HighConfidence]

\* the inner try and catch around the call of the chat-completion API
AfterGroq(outcome) ==
  IF outcome \in {"fetchRejects", "notOk", "notJson", "contentNotString"}
    THEN [status |-> 200, response |-> MockAfterError,
          confidence |-> DefaultConfidence]
    ELSE IF outcome = "noContent"
      THEN [status |-> 200, response |-> InvalidGroqResponse,
            confidence |-> LowConfidence]
      ELSE IF outcome = "contentWithError"
        THEN [status |-> 200, response |-> outcome, confidence |-> LowConfidence]
        ELSE [status |-> 200, response |-> outcome, confidence |-> HighConfidence]

\* POST /api/insights/query
insightsQueryRoute ==
  \E query \in Queries, agentType \in AgentTypes, outcome \in GroqOutcomes :
    LET request == [route |-> "/api/insights/query", query |-> query,
                    agentType |-> agentType, key |-> groqApiKey]
        answered(called, r) ==
          IF r.status = 200
            THEN [route |-> request.route, query |-> query, agentType |-> agentType,
                  key |-> groqApiKey, status |-> 200, called |-> called,
                  body |-> [id |-> now, agentType |-> agentType.value,
                            query |-> query.value, response |-> r.response,
                            confidence |-> r.confidence, timestamp |-> now]]
            ELSE [route |-> request.route, query |-> query, agentType |-> agentType,
                  key |-> groqApiKey, status |-> r.status, called |-> called]
    IN  /\ http' =
             IF QueryRejected(query) \/ AgentTypeRejected(agentType)
               THEN answered(<<>>, [status |-> 400])
               ELSE IF KeyConfigured(groqApiKey)
                 THEN answered(<<outcome>>, AfterGroq(outcome))
                 ELSE answered(<<>>, [status |-> 200, response |-> MockResponse,
                                      confidence |-> DefaultConfidence])
        /\ response' = NoResponse
        /\ UNCHANGED <<storeVars, now, auxVars>>

(***************************************************************************)
(* The CSV loaders: scripts/load-data-replit-only.ts and the loader of     *)
(* both databases, scripts/load-data.ts.  A record of a CSV file is its     *)
(* position in the file, a batch is the range of the positions it holds,   *)
(* and a target database holds, for each table, a set of batches.          *)
(***************************************************************************)
\* the field keys of the records that loadData builds for a table, each key
\* as the sequence of its characters
KeysOf(table) ==
  CASE table = "branches" ->
         {(* branchId *)
          <<"b", "r", "a", "n", "c", "h", "I", "d">>,
          (* branchName *)
          <<"b", "r", "a", "n", "c", "h", "N", "a", "m", "e">>,
          (* region *)
          <<"r", "e", "g", "i", "o", "n">>,
          (* urbanRural *)
          <<"u", "r", "b", "a", "n", "R", "u", "r", "a", "l">>,
          (* staffCount *)
          <<"s", "t", "a", "f", "f", "C", "o", "u", "n", "t">>,
          (* avgTargetTier *)
          <<"a", "v", "g", "T", "a", "r", "g", "e", "t", "T", "i", "e", "r">>,
          (* latitude *)
          <<"l", "a", "t", "i", "t", "u", "d", "e">>,
          (* longitude *)
          <<"l", "o", "n", "g", "i", "t", "u", "d", "e">>}
    [] table = "officers" ->
         {(* officerId *)
          <<"o", "f", "f", "i", "c", "e", "r", "I", "d">>,
          (* name *)
          <<"n", "a", "m", "e">>,
          (* branchId *)
          <<"b", "r", "a", "n", "c", "h", "I", "d">>,
          (* role *)
          <<"r", "o", "l", "e">>}
    [] table = "customers" ->
         {(* customerId *)
          <<"c", "u", "s", "t", "o", "m", "e", "r", "I", "d">>,
          (* firstName *)
          <<"f", "i", "r", "s", "t", "N", "a", "m", "e">>,
          (* lastName *)
          <<"l", "a", "s", "t", "N", "a", "m", "e">>,
          (* gender *)
          <<"g", "e", "n", "d", "e", "r">>,
          (* birthYear *)
          <<"b", "i", "r", "t", "h", "Y", "e", "a", "r">>,
          (* age *)
          <<"a", "g", "e">>,
          (* nationalId *)
          <<"n", "a", "t", "i", "o", "n", "a", "l", "I", "d">>,
          (* phone *)
          <<"p", "h", "o", "n", "e">>,
          (* primaryBranch *)
          <<"p", "r", "i", "m", "a", "r", "y", "B", "r", "a", "n", "c", "h">>,
          (* region *)
          <<"r", "e", "g", "i", "o", "n">>,
          (* businessType *)
          <<"b", "u", "s", "i", "n", "e", "s", "s", "T", "y", "p", "e">>,
          (* monthlyIncomeBand *)
          <<"m", "o", "n", "t", "h", "l", "y", "I", "n", "c", "o", "m", "e", "B", "a", "n", "d">>,
          (* historicalCycles *)
          <<"h", "i", "s", "t", "o", "r", "i", "c", "a", "l", "C", "y", "c", "l", "e", "s">>,
          (* avgWeeklyCash *)
          <<"a", "v", "g", "W", "e", "e", "k", "l", "y", "C", "a", "s", "h">>,
          (* fraudFlagInitial *)
          <<"f", "r", "a", "u", "d", "F", "l", "a", "g", "I", "n", "i", "t", "i", "a", "l">>}
    [] table = "loans" ->
         {(* loanId *)
          <<"l", "o", "a", "n", "I", "d">>,
          (* customerId *)
          <<"c", "u", "s", "t", "o", "m", "e", "r", "I", "d">>,
          (* branchId *)
          <<"b", "r", "a", "n", "c", "h", "I", "d">>,
          (* officerId *)
          <<"o", "f", "f", "i", "c", "e", "r", "I", "d">>,
          (* disbursementDate *)
          <<"d", "i", "s", "b", "u", "r", "s", "e", "m", "e", "n", "t", "D", "a", "t", "e">>,
          (* dueDate *)
          <<"d", "u", "e", "D", "a", "t", "e">>,
          (* amount *)
          <<"a", "m", "o", "u", "n", "t">>,
          (* tenorWeeks *)
          <<"t", "e", "n", "o", "r", "W", "e", "e", "k", "s">>,
          (* dailyInstallment *)
          <<"d", "a", "i", "l", "y", "I", "n", "s", "t", "a", "l", "l", "m", "e", "n", "t">>,
          (* missRate *)
          <<"m", "i", "s", "s", "R", "a", "t", "e">>,
          (* rescheduled *)
          <<"r", "e", "s", "c", "h", "e", "d", "u", "l", "e", "d">>,
          (* defaultFlag *)
          <<"d", "e", "f", "a", "u", "l", "t", "F", "l", "a", "g">>,
          (* loanStatus *)
          <<"l", "o", "a", "n", "S", "t", "a", "t", "u", "s">>}
    [] table = "repayments" ->
         {(* loanId *)
          <<"l", "o", "a", "n", "I", "d">>,
          (* customerId *)
          <<"c", "u", "s", "t", "o", "m", "e", "r", "I", "d">>,
          (* branchId *)
          <<"b", "r", "a", "n", "c", "h", "I", "d">>,
          (* paymentDate *)
          <<"p", "a", "y", "m", "e", "n", "t", "D", "a", "t", "e">>,
          (* amountPaid *)
          <<"a", "m", "o", "u", "n", "t", "P", "a", "i", "d">>,
          (* status *)
          <<"s", "t", "a", "t", "u", "s">>}
    [] table = "daily_branch_performance" ->
         {(* date *)
          <<"d", "a", "t", "e">>,
          (* branchId *)
          <<"b", "r", "a", "n", "c", "h", "I", "d">>,
          (* region *)
          <<"r", "e", "g", "i", "o", "n">>,
          (* recruitedToday *)
          <<"r", "e", "c", "r", "u", "i", "t", "e", "d", "T", "o", "d", "a", "y">>,
          (* disbursedAmountKsh *)
          <<"d", "i", "s", "b", "u", "r", "s", "e", "d", "A", "m", "o", "u", "n", "t", "K", "s", "h">>,
          (* dailyDuesKsh *)
          <<"d", "a", "i", "l", "y", "D", "u", "e", "s", "K", "s", "h">>,
          (* collectedKsh *)
          <<"c", "o", "l", "l", "e", "c", "t", "e", "d", "K", "s", "h">>,
          (* missedCalls *)
          <<"m", "i", "s", "s", "e", "d", "C", "a", "l", "l", "s">>,
          (* arrearsNewKsh *)
          <<"a", "r", "r", "e", "a", "r", "s", "N", "e", "w", "K", "s", "h">>,
          (* parPercent *)
          <<"p", "a", "r", "P", "e", "r", "c", "e", "n", "t">>,
          (* dailyTargetKsh *)
          <<"d", "a", "i", "l", "y", "T", "a", "r", "g", "e", "t", "K", "s", "h">>}
    [] table = "monthly_branch_summary" ->
         {(* branchId *)
          <<"b", "r", "a", "n", "c", "h", "I", "d">>,
          (* month *)
          <<"m", "o", "n", "t", "h">>,
          (* recruitedMonthly *)
          <<"r", "e", "c", "r", "u", "i", "t", "e", "d", "M", "o", "n", "t", "h", "l", "y">>,
          (* disbursedMonthlyKsh *)
          <<"d", "i", "s", "b", "u", "r", "s", "e", "d", "M", "o", "n", "t", "h", "l", "y", "K", "s", "h">>,
          (* duesMonthlyKsh *)
          <<"d", "u", "e", "s", "M", "o", "n", "t", "h", "l", "y", "K", "s", "h">>,
          (* collectedMonthlyKsh *)
          <<"c", "o", "l", "l", "e", "c", "t", "e", "d", "M", "o", "n", "t", "h", "l", "y", "K", "s", "h">>,
          (* arrearsMonthlyKsh *)
          <<"a", "r", "r", "e", "a", "r", "s", "M", "o", "n", "t", "h", "l", "y", "K", "s", "h">>,
          (* avgParPercent *)
          <<"a", "v", "g", "P", "a", "r", "P", "e", "r", "c", "e", "n", "t">>}
    [] table = "officer_performance" ->
         {(* officerId *)
          <<"o", "f", "f", "i", "c", "e", "r", "I", "d">>,
          (* branchId *)
          <<"b", "r", "a", "n", "c", "h", "I", "d">>,
          (* month *)
          <<"m", "o", "n", "t", "h">>,
          (* loansHandled *)
          <<"l", "o", "a", "n", "s", "H", "a", "n", "d", "l", "e", "d">>,
          (* approvals *)
          <<"a", "p", "p", "r", "o", "v", "a", "l", "s">>,
          (* arrearsRecoveredKsh *)
          <<"a", "r", "r", "e", "a", "r", "s", "R", "e", "c", "o", "v", "e", "r", "e", "d", "K", "s", "h">>,
          (* fraudHits *)
          <<"f", "r", "a", "u", "d", "H", "i", "t", "s">>}
    [] table = "fraud_signals" ->
         {(* customerId *)
          <<"c", "u", "s", "t", "o", "m", "e", "r", "I", "d">>,
          (* nationalIdMismatch *)
          <<"n", "a", "t", "i", "o", "n", "a", "l", "I", "d", "M", "i", "s", "m", "a", "t", "c", "h">>,
          (* sharedPhoneNumber *)
          <<"s", "h", "a", "r", "e", "d", "P", "h", "o", "n", "e", "N", "u", "m", "b", "e", "r">>,
          (* distanceAnomaly *)
          <<"d", "i", "s", "t", "a", "n", "c", "e", "A", "n", "o", "m", "a", "l", "y">>,
          (* suspiciousRepaymentPattern *)
          <<"s", "u", "s", "p", "i", "c", "i", "o", "u", "s", "R", "e", "p", "a", "y", "m", "e", "n", "t", "P", "a", "t", "t", "e", "r", "n">>,
          (* syntheticCustomerScore *)
          <<"s", "y", "n", "t", "h", "e", "t", "i", "c", "C", "u", "s", "t", "o", "m", "e", "r", "S", "c", "o", "r", "e">>}
    [] table = "ai_customer_features" ->
         {(* customerId *)
          <<"c", "u", "s", "t", "o", "m", "e", "r", "I", "d">>,
          (* primaryBranch *)
          <<"p", "r", "i", "m", "a", "r", "y", "B", "r", "a", "n", "c", "h">>,
          (* avgWeeklyCash *)
          <<"a", "v", "g", "W", "e", "e", "k", "l", "y", "C", "a", "s", "h">>,
          (* historicalCycles *)
          <<"h", "i", "s", "t", "o", "r", "i", "c", "a", "l", "C", "y", "c", "l", "e", "s">>,
          (* riskScore0100 *)
          <<"r", "i", "s", "k", "S", "c", "o", "r", "e", "0", "1", "0", "0">>,
          (* defaultProb *)
          <<"d", "e", "f", "a", "u", "l", "t", "P", "r", "o", "b">>,
          (* churnProb *)
          <<"c", "h", "u", "r", "n", "P", "r", "o", "b">>,
          (* recommendedLimitKsh *)
          <<"r", "e", "c", "o", "m", "m", "e", "n", "d", "e", "d", "L", "i", "m", "i", "t", "K", "s", "h">>}

\* the fields that the schema declares for a table, each with its column
SchemaOf(table) ==
  CASE table = "branches" ->
         {(* branchId: branch_id *)
          [field |-> <<"b", "r", "a", "n", "c", "h", "I", "d">>,
           column |-> <<"b", "r", "a", "n", "c", "h", "_", "i", "d">>],
          (* branchName: branch_name *)
          [field |-> <<"b", "r", "a", "n", "c", "h", "N", "a", "m", "e">>,
           column |-> <<"b", "r", "a", "n", "c", "h", "_", "n", "a", "m", "e">>],
          (* region: region *)
          [field |-> <<"r", "e", "g", "i", "o", "n">>,
           column |-> <<"r", "e", "g", "i", "o", "n">>],
          (* urbanRural: urban_rural *)
          [field |-> <<"u", "r", "b", "a", "n", "R", "u", "r", "a", "l">>,
           column |-> <<"u", "r", "b", "a", "n", "_", "r", "u", "r", "a", "l">>],
          (* staffCount: staff_count *)
          [field |-> <<"s", "t", "a", "f", "f", "C", "o", "u", "n", "t">>,
           column |-> <<"s", "t", "a", "f", "f", "_", "c", "o", "u", "n", "t">>],
          (* avgTargetTier: avg_target_tier *)
          [field |-> <<"a", "v", "g", "T", "a", "r", "g", "e", "t", "T", "i", "e", "r">>,
           column |-> <<"a", "v", "g", "_", "t", "a", "r", "g", "e", "t", "_", "t", "i", "e", "r">>],
          (* latitude: latitude *)
          [field |-> <<"l", "a", "t", "i", "t", "u", "d", "e">>,
           column |-> <<"l", "a", "t", "i", "t", "u", "d", "e">>],
          (* longitude: longitude *)
          [field |-> <<"l", "o", "n", "g", "i", "t", "u", "d", "e">>,
           column |-> <<"l", "o", "n", "g", "i", "t", "u", "d", "e">>]}
    [] table = "officers" ->
         {(* officerId: officer_id *)
          [field |-> <<"o", "f", "f", "i", "c", "e", "r", "I", "d">>,
           column |-> <<"o", "f", "f", "i", "c", "e", "r", "_", "i", "d">>],
          (* name: name *)
          [field |-> <<"n", "a", "m", "e">>,
           column |-> <<"n", "a", "m", "e">>],
          (* branchId: branch_id *)
          [field |-> <<"b", "r", "a", "n", "c", "h", "I", "d">>,
           column |-> <<"b", "r", "a", "n", "c", "h", "_", "i", "d">>],
          (* role: role *)
          [field |-> <<"r", "o", "l", "e">>,
           column |-> <<"r", "o", "l", "e">>]}
    [] table = "customers" ->
         {(* customerId: customer_id *)
          [field |-> <<"c", "u", "s", "t", "o", "m", "e", "r", "I", "d">>,
           column |-> <<"c", "u", "s", "t", "o", "m", "e", "r", "_", "i", "d">>],
          (* firstName: first_name *)
          [field |-> <<"f", "i", "r", "s", "t", "N", "a", "m", "e">>,
           column |-> <<"f", "i", "r", "s", "t", "_", "n", "a", "m", "e">>],
          (* lastName: last_name *)
          [field |-> <<"l", "a", "s", "t", "N", "a", "m", "e">>,
           column |-> <<"l", "a", "s", "t", "_", "n", "a", "m", "e">>],
          (* gender: gender *)
          [field |-> <<"g", "e", "n", "d", "e", "r">>,
           column |-> <<"g", "e", "n", "d", "e", "r">>],
          (* birthYear: birth_year *)
          [field |-> <<"b", "i", "r", "t", "h", "Y", "e", "a", "r">>,
           column |-> <<"b", "i", "r", "t", "h", "_", "y", "e", "a", "r">>],
          (* age: age *)
          [field |-> <<"a", "g", "e">>,
           column |-> <<"a", "g", "e">>],
          (* nationalId: national_id *)
          [field |-> <<"n", "a", "t", "i", "o", "n", "a", "l", "I", "d">>,
           column |-> <<"n", "a", "t", "i", "o", "n", "a", "l", "_", "i", "d">>],
          (* phone: phone *)
          [field |-> <<"p", "h", "o", "n", "e">>,
           column |-> <<"p", "h", "o", "n", "e">>],
          (* primaryBranch: primary_branch *)
          [field |-> <<"p", "r", "i", "m", "a", "r", "y", "B", "r", "a", "n", "c", "h">>,
           column |-> <<"p", "r", "i", "m", "a", "r", "y", "_", "b", "r", "a", "n", "c", "h">>],
          (* region: region *)
          [field |-> <<"r", "e", "g", "i", "o", "n">>,
           column |-> <<"r", "e", "g", "i", "o", "n">>],
          (* businessType: business_type *)
          [field |-> <<"b", "u", "s", "i", "n", "e", "s", "s", "T", "y", "p", "e">>,
           column |-> <<"b", "u", "s", "i", "n", "e", "s", "s", "_", "t", "y", "p", "e">>],
          (* monthlyIncomeBand: monthly_income_band *)
          [field |-> <<"m", "o", "n", "t", "h", "l", "y", "I", "n", "c", "o", "m", "e", "B", "a", "n", "d">>,
           column |-> <<"m", "o", "n", "t", "h", "l", "y", "_", "i", "n", "c", "o", "m", "e", "_", "b", "a", "n", "d">>],
          (* historicalCycles: historical_cycles *)
          [field |-> <<"h", "i", "s", "t", "o", "r", "i", "c", "a", "l", "C", "y", "c", "l", "e", "s">>,
           column |-> <<"h", "i", "s", "t", "o", "r", "i", "c", "a", "l", "_", "c", "y", "c", "l", "e", "s">>],
          (* avgWeeklyCash: avg_weekly_cash *)
          [field |-> <<"a", "v", "g", "W", "e", "e", "k", "l", "y", "C", "a", "s", "h">>,
           column |-> <<"a", "v", "g", "_", "w", "e", "e", "k", "l", "y", "_", "c", "a", "s", "h">>],
          (* fraudFlagInitial: fraud_flag_initial *)
          [field |-> <<"f", "r", "a", "u", "d", "F", "l", "a", "g", "I", "n", "i", "t", "i", "a", "l">>,
           column |-> <<"f", "r", "a", "u", "d", "_", "f", "l", "a", "g", "_", "i", "n", "i", "t", "i", "a", "l">>]}
    [] table = "loans" ->
         {(* loanId: loan_id *)
          [field |-> <<"l", "o", "a", "n", "I", "d">>,
           column |-> <<"l", "o", "a", "n", "_", "i", "d">>],
          (* customerId: customer_id *)
          [field |-> <<"c", "u", "s", "t", "o", "m", "e", "r", "I", "d">>,
           column |-> <<"c", "u", "s", "t", "o", "m", "e", "r", "_", "i", "d">>],
          (* branchId: branch_id *)
          [field |-> <<"b", "r", "a", "n", "c", "h", "I", "d">>,
           column |-> <<"b", "r", "a", "n", "c", "h", "_", "i", "d">>],
          (* officerId: officer_id *)
          [field |-> <<"o", "f", "f", "i", "c", "e", "r", "I", "d">>,
           column |-> <<"o", "f", "f", "i", "c", "e", "r", "_", "i", "d">>],
          (* disbursementDate: disbursement_date *)
          [field |-> <<"d", "i", "s", "b", "u", "r", "s", "e", "m", "e", "n", "t", "D", "a", "t", "e">>,
           column |-> <<"d", "i", "s", "b", "u", "r", "s", "e", "m", "e", "n", "t", "_", "d", "a", "t", "e">>],
          (* dueDate: due_date *)
          [field |-> <<"d", "u", "e", "D", "a", "t", "e">>,
           column |-> <<"d", "u", "e", "_", "d", "a", "t", "e">>],
          (* amount: amount *)
          [field |-> <<"a", "m", "o", "u", "n", "t">>,
           column |-> <<"a", "m", "o", "u", "n", "t">>],
          (* tenorWeeks: tenor_weeks *)
          [field |-> <<"t", "e", "n", "o", "r", "W", "e", "e", "k", "s">>,
           column |-> <<"t", "e", "n", "o", "r", "_", "w", "e", "e", "k", "s">>],
          (* dailyInstallment: daily_installment *)
          [field |-> <<"d", "a", "i", "l", "y", "I", "n", "s", "t", "a", "l", "l", "m", "e", "n", "t">>,
           column |-> <<"d", "a", "i", "l", "y", "_", "i", "n", "s", "t", "a", "l", "l", "m", "e", "n", "t">>],
          (* missRate: miss_rate *)
          [field |-> <<"m", "i", "s", "s", "R", "a", "t", "e">>,
           column |-> <<"m", "i", "s", "s", "_", "r", "a", "t", "e">>],
          (* rescheduled: rescheduled *)
          [field |-> <<"r", "e", "s", "c", "h", "e", "d", "u", "l", "e", "d">>,
           column |-> <<"r", "e", "s", "c", "h", "e", "d", "u", "l", "e", "d">>],
          (* defaultFlag: default_flag *)
          [field |-> <<"d", "e", "f", "a", "u", "l", "t", "F", "l", "a", "g">>,
           column |-> <<"d", "e", "f", "a", "u", "l", "t", "_", "f", "l", "a", "g">>],
          (* loanStatus: loan_status *)
          [field |-> <<"l", "o", "a", "n", "S", "t", "a", "t", "u", "s">>,
           column |-> <<"l", "o", "a", "n", "_", "s", "t", "a", "t", "u", "s">>]}
    [] table = "repayments" ->
         {(* id: id *)
          [field |-> <<"i", "d">>,
           column |-> <<"i", "d">>],
          (* loanId: loan_id *)
          [field |-> <<"l", "o", "a", "n", "I", "d">>,
           column |-> <<"l", "o", "a", "n", "_", "i", "d">>],
          (* customerId: customer_id *)
          [field |-> <<"c", "u", "s", "t", "o", "m", "e", "r", "I", "d">>,
           column |-> <<"c", "u", "s", "t", "o", "m", "e", "r", "_", "i", "d">>],
          (* branchId: branch_id *)
          [field |-> <<"b", "r", "a", "n", "c", "h", "I", "d">>,
           column |-> <<"b", "r", "a", "n", "c", "h", "_", "i", "d">>],
          (* paymentDate: payment_date *)
          [field |-> <<"p", "a", "y", "m", "e", "n", "t", "D", "a", "t", "e">>,
           column |-> <<"p", "a", "y", "m", "e", "n", "t", "_", "d", "a", "t", "e">>],
          (* amountPaid: amount_paid *)
          [field |-> <<"a", "m", "o", "u", "n", "t", "P", "a", "i", "d">>,
           column |-> <<"a", "m", "o", "u", "n", "t", "_", "p", "a", "i", "d">>],
          (* status: status *)
          [field |-> <<"s", "t", "a", "t", "u", "s">>,
           column |-> <<"s", "t", "a", "t", "u", "s">>]}
    [] table = "daily_branch_performance" ->
         {(* id: id *)
          [field |-> <<"i", "d">>,
           column |-> <<"i", "d">>],
          (* date: date *)
          [field |-> <<"d", "a", "t", "e">>,
           column |-> <<"d", "a", "t", "e">>],
          (* branchId: branch_id *)
          [field |-> <<"b", "r", "a", "n", "c", "h", "I", "d">>,
           column |-> <<"b", "r", "a", "n", "c", "h", "_", "i", "d">>],
          (* region: region *)
          [field |-> <<"r", "e", "g", "i", "o", "n">>,
           column |-> <<"r", "e", "g", "i", "o", "n">>],
          (* recruitedToday: recruited_today *)
          [field |-> <<"r", "e", "c", "r", "u", "i", "t", "e", "d", "T", "o", "d", "a", "y">>,
           column |-> <<"r", "e", "c", "r", "u", "i", "t", "e", "d", "_", "t", "o", "d", "a", "y">>],
          (* disbursedAmountKsh: disbursed_amount_ksh *)
          [field |-> <<"d", "i", "s", "b", "u", "r", "s", "e", "d", "A", "m", "o", "u", "n", "t", "K", "s", "h">>,
           column |-> <<"d", "i", "s", "b", "u", "r", "s", "e", "d", "_", "a", "m", "o", "u", "n", "t", "_", "k", "s", "h">>],
          (* dailyDuesKsh: daily_dues_ksh *)
          [field |-> <<"d", "a", "i", "l", "y", "D", "u", "e", "s", "K", "s", "h">>,
           column |-> <<"d", "a", "i", "l", "y", "_", "d", "u", "e", "s", "_", "k", "s", "h">>],
          (* collectedKsh: collected_ksh *)
          [field |-> <<"c", "o", "l", "l", "e", "c", "t", "e", "d", "K", "s", "h">>,
           column |-> <<"c", "o", "l", "l", "e", "c", "t", "e", "d", "_", "k", "s", "h">>],
          (* missedCalls: missed_calls *)
          [field |-> <<"m", "i", "s", "s", "e", "d", "C", "a", "l", "l", "s">>,
           column |-> <<"m", "i", "s", "s", "e", "d", "_", "c", "a", "l", "l", "s">>],
          (* arrearsNewKsh: arrears_new_ksh *)
          [field |-> <<"a", "r", "r", "e", "a", "r", "s", "N", "e", "w", "K", "s", "h">>,
           column |-> <<"a", "r", "r", "e", "a", "r", "s", "_", "n", "e", "w", "_", "k", "s", "h">>],
          (* parPercent: par_percent *)
          [field |-> <<"p", "a", "r", "P", "e", "r", "c", "e", "n", "t">>,
           column |-> <<"p", "a", "r", "_", "p", "e", "r", "c", "e", "n", "t">>],
          (* dailyTargetKsh: daily_target_ksh *)
          [field |-> <<"d", "a", "i", "l", "y", "T", "a", "r", "g", "e", "t", "K", "s", "h">>,
           column |-> <<"d", "a", "i", "l", "y", "_", "t", "a", "r", "g", "e", "t", "_", "k", "s", "h">>]}
    [] table = "monthly_branch_summary" ->
         {(* id: id *)
          [field |-> <<"i", "d">>,
           column |-> <<"i", "d">>],
          (* branchId: branch_id *)
          [field |-> <<"b", "r", "a", "n", "c", "h", "I", "d">>,
           column |-> <<"b", "r", "a", "n", "c", "h", "_", "i", "d">>],
          (* month: month *)
          [field |-> <<"m", "o", "n", "t", "h">>,
           column |-> <<"m", "o", "n", "t", "h">>],
          (* recruitedMonthly: recruited_monthly *)
          [field |-> <<"r", "e", "c", "r", "u", "i", "t", "e", "d", "M", "o", "n", "t", "h", "l", "y">>,
           column |-> <<"r", "e", "c", "r", "u", "i", "t", "e", "d", "_", "m", "o", "n", "t", "h", "l", "y">>],
          (* disbursedMonthlyKsh: disbursed_monthly_ksh *)
          [field |-> <<"d", "i", "s", "b", "u", "r", "s", "e", "d", "M", "o", "n", "t", "h", "l", "y", "K", "s", "h">>,
           column |-> <<"d", "i", "s", "b", "u", "r", "s", "e", "d", "_", "m", "o", "n", "t", "h", "l", "y", "_", "k", "s", "h">>],
          (* duesMonthlyKsh: dues_monthly_ksh *)
          [field |-> <<"d", "u", "e", "s", "M", "o", "n", "t", "h", "l", "y", "K", "s", "h">>,
           column |-> <<"d", "u", "e", "s", "_", "m", "o", "n", "t", "h", "l", "y", "_", "k", "s", "h">>],
          (* collectedMonthlyKsh: collected_monthly_ksh *)
          [field |-> <<"c", "o", "l", "l", "e", "c", "t", "e", "d", "M", "o", "n", "t", "h", "l", "y", "K", "s", "h">>,
           column |-> <<"c", "o", "l", "l", "e", "c", "t", "e", "d", "_", "m", "o", "n", "t", "h", "l", "y", "_", "k", "s", "h">>],
          (* arrearsMonthlyKsh: arrears_monthly_ksh *)
          [field |-> <<"a", "r", "r", "e", "a", "r", "s", "M", "o", "n", "t", "h", "l", "y", "K", "s", "h">>,
           column |-> <<"a", "r", "r", "e", "a", "r", "s", "_", "m", "o", "n", "t", "h", "l", "y", "_", "k", "s", "h">>],
          (* avgParPercent: avg_par_percent *)
          [field |-> <<"a", "v", "g", "P", "a", "r", "P", "e", "r", "c", "e", "n", "t">>,
           column |-> <<"a", "v", "g", "_", "p", "a", "r", "_", "p", "e", "r", "c", "e", "n", "t">>]}
    [] table = "officer_performance" ->
         {(* id: id *)
          [field |-> <<"i", "d">>,
           column |-> <<"i", "d">>],
          (* officerId: officer_id *)
          [field |-> <<"o", "f", "f", "i", "c", "e", "r", "I", "d">>,
           column |-> <<"o", "f", "f", "i", "c", "e", "r", "_", "i", "d">>],
          (* branchId: branch_id *)
          [field |-> <<"b", "r", "a", "n", "c", "h", "I", "d">>,
           column |-> <<"b", "r", "a", "n", "c", "h", "_", "i", "d">>],
          (* month: month *)
          [field |-> <<"m", "o", "n", "t", "h">>,
           column |-> <<"m", "o", "n", "t", "h">>],
          (* loansHandled: loans_handled *)
          [field |-> <<"l", "o", "a", "n", "s", "H", "a", "n", "d", "l", "e", "d">>,
           column |-> <<"l", "o", "a", "n", "s", "_", "h", "a", "n", "d", "l", "e", "d">>],
          (* approvals: approvals *)
          [field |-> <<"a", "p", "p", "r", "o", "v", "a", "l", "s">>,
           column |-> <<"a", "p", "p", "r", "o", "v", "a", "l", "s">>],
          (* arrearsRecoveredKsh: arrears_recovered_ksh *)
          [field |-> <<"a", "r", "r", "e", "a", "r", "s", "R", "e", "c", "o", "v", "e", "r", "e", "d", "K", "s", "h">>,
           column |-> <<"a", "r", "r", "e", "a", "r", "s", "_", "r", "e", "c", "o", "v", "e", "r", "e", "d", "_", "k", "s", "h">>],
          (* fraudHits: fraud_hits *)
          [field |-> <<"f", "r", "a", "u", "d", "H", "i", "t", "s">>,
           column |-> <<"f", "r", "a", "u", "d", "_", "h", "i", "t", "s">>]}
    [] table = "fraud_signals" ->
         {(* customerId: customer_id *)
          [field |-> <<"c", "u", "s", "t", "o", "m", "e", "r", "I", "d">>,
           column |-> <<"c", "u", "s", "t", "o", "m", "e", "r", "_", "i", "d">>],
          (* nationalIdMismatch: national_id_mismatch *)
          [field |-> <<"n", "a", "t", "i", "o", "n", "a", "l", "I", "d", "M", "i", "s", "m", "a", "t", "c", "h">>,
           column |-> <<"n", "a", "t", "i", "o", "n", "a", "l", "_", "i", "d", "_", "m", "i", "s", "m", "a", "t", "c", "h">>],
          (* sharedPhoneNumber: shared_phone_number *)
          [field |-> <<"s", "h", "a", "r", "e", "d", "P", "h", "o", "n", "e", "N", "u", "m", "b", "e", "r">>,
           column |-> <<"s", "h", "a", "r", "e", "d", "_", "p", "h", "o", "n", "e", "_", "n", "u", "m", "b", "e", "r">>],
          (* distanceAnomaly: distance_anomaly *)
          [field |-> <<"d", "i", "s", "t", "a", "n", "c", "e", "A", "n", "o", "m", "a", "l", "y">>,
           column |-> <<"d", "i", "s", "t", "a", "n", "c", "e", "_", "a", "n", "o", "m", "a", "l", "y">>],
          (* suspiciousRepaymentPattern: suspicious_repayment_pattern *)
          [field |-> <<"s", "u", "s", "p", "i", "c", "i", "o", "u", "s", "R", "e", "p", "a", "y", "m", "e", "n", "t", "P", "a", "t", "t", "e", "r", "n">>,
           column |-> <<"s", "u", "s", "p", "i", "c", "i", "o", "u", "s", "_", "r", "e", "p", "a", "y", "m", "e", "n", "t", "_", "p", "a", "t", "t", "e", "r", "n">>],
          (* syntheticCustomerScore: synthetic_customer_score *)
          [field |-> <<"s", "y", "n", "t", "h", "e", "t", "i", "c", "C", "u", "s", "t", "o", "m", "e", "r", "S", "c", "o", "r", "e">>,
           column |-> <<"s", "y", "n", "t", "h", "e", "t", "i", "c", "_", "c", "u", "s", "t", "o", "m", "e", "r", "_", "s", "c", "o", "r", "e">>]}
    [] table = "ai_customer_features" ->
         {(* customerId: customer_id *)
          [field |-> <<"c", "u", "s", "t", "o", "m", "e", "r", "I", "d">>,
           column |-> <<"c", "u", "s", "t", "o", "m", "e", "r", "_", "i", "d">>],
          (* primaryBranch: primary_branch *)
          [field |-> <<"p", "r", "i", "m", "a", "r", "y", "B", "r", "a", "n", "c", "h">>,
           column |-> <<"p", "r", "i", "m", "a", "r", "y", "_", "b", "r", "a", "n", "c", "h">>],
          (* avgWeeklyCash: avg_weekly_cash *)
          [field |-> <<"a", "v", "g", "W", "e", "e", "k", "l", "y", "C", "a", "s", "h">>,
           column |-> <<"a", "v", "g", "_", "w", "e", "e", "k", "l", "y", "_", "c", "a", "s", "h">>],
          (* historicalCycles: historical_cycles *)
          [field |-> <<"h", "i", "s", "t", "o", "r", "i", "c", "a", "l", "C", "y", "c", "l", "e", "s">>,
           column |-> <<"h", "i", "s", "t", "o", "r", "i", "c", "a", "l", "_", "c", "y", "c", "l", "e", "s">>],
          (* riskScore0100: risk_score_0_100 *)
          [field |-> <<"r", "i", "s", "k", "S", "c", "o", "r", "e", "0", "1", "0", "0">>,
           column |-> <<"r", "i", "s", "k", "_", "s", "c", "o", "r", "e", "_", "0", "_", "1", "0", "0">>],
          (* defaultProb: default_prob *)
          [field |-> <<"d", "e", "f", "a", "u", "l", "t", "P", "r", "o", "b">>,
           column |-> <<"d", "e", "f", "a", "u", "l", "t", "_", "p", "r", "o", "b">>],
          (* churnProb: churn_prob *)
          [field |-> <<"c", "h", "u", "r", "n", "P", "r", "o", "b">>,
           column |-> <<"c", "h", "u", "r", "n", "_", "p", "r", "o", "b">>],
          (* recommendedLimitKsh: recommended_limit_ksh *)
          [field |-> <<"r", "e", "c", "o", "m", "m", "e", "n", "d", "e", "d", "L", "i", "m", "i", "t", "K", "s", "h">>,
           column |-> <<"r", "e", "c", "o", "m", "m", "e", "n", "d", "e", "d", "_", "l", "i", "m", "i", "t", "_", "k", "s", "h">>]}

UpperCase ==
  [A |-> "a", B |-> "b", C |-> "c", D |-> "d", E |-> "e", F |-> "f", G |-> "g",
   H |-> "h", I |-> "i", J |-> "j", K |-> "k", L |-> "l", M |-> "m", N |-> "n",
   O |-> "o", P |-> "p", Q |-> "q", R |-> "r", S |-> "s", T |-> "t", U |-> "u",
   V |-> "v", W |-> "w", X |-> "x", Y |-> "y", Z |-> "z"]

\* key.replace(/[A-Z]/g, letter => `_${letter.toLowerCase()}`)
RECURSIVE ToSnakeCase(_)
ToSnakeCase(key) ==
  IF key = <<>> THEN <<>>
  ELSE IF Head(key) \in DOMAIN UpperCase
    THEN <<"_", UpperCase[Head(key)]>> \o ToSnakeCase(Tail(key))
    ELSE <<Head(key)>> \o ToSnakeCase(Tail(key))

\* the keys of a record of the table after toSnakeCase
SnakeKeys(table) == {ToSnakeCase(key) : key \in KeysOf(table)}

\* the insert of Supabase addresses columns of the table only
SnakeKeysExist(table) ==
  \A k \in SnakeKeys(table) : \E s \in SchemaOf(table) : s.column = k

\* the lengths of a CSV file: empty, one record, and up to MaxBatches full
\* batches with and without one record more
CsvSizes == {0, 1} \cup {k * BATCH_SIZE + d : k \in 1..MaxBatches, d \in {0, 1}}

\* the CSV files of a run: one file of any length among files of at most one
\* record
CsvInputs ==
  {[e \in Entities |-> IF e = big THEN n ELSE m] :
     big \in Entities, n \in CsvSizes, m \in {0, 1}}

\* data.slice(i, BATCH_SIZE): a variant that ends every batch at BATCH_SIZE
BatchFromStart(i, n) == [lo |-> i + 1, hi |-> Min(BATCH_SIZE, n)]

\* data.slice(i, i + BATCH_SIZE) of n records, as the range of its positions
Batch(i, n) == [lo |-> i + 1, hi |-> Min(i + BATCH_SIZE, n)]

\* the error is logged and the run goes on
NotExited(code) == loader

\* process.exit(code)
Exited(code) == [loader EXCEPT !.pc = "exited", !.exitCode = code]

\* after insertInBatches has returned: the next readCSV, or process.exit(0)
\* after the last entity type
AfterInsertInBatches ==
  IF loader.entity = NumEntities
    THEN Exited(0)
    ELSE [loader EXCEPT !.pc = "read", !.entity = @ + 1]

Attempt(e, target, batch, ok) ==
  [entity |-> e, target |-> target, lo |-> batch.lo, hi |-> batch.hi, ok |-> ok]

\* process.argv.includes('--dry-run'), read as never set
DryRunIgnored == FALSE

\* process.argv.includes('--dry-run')
DRY_RUN == loader.dryRun

\* load-data.ts at start: without the Supabase credentials the process exits
checkCredentials ==
  /\ loader.pc = "start"
  /\ loader.script = "dual"
  /\ loader' = IF loader.credentials THEN [loader EXCEPT !.pc = "clear"]
               ELSE Exited(1)
  /\ UNCHANGED <<storeVars, response, now, http, groqApiKey, replitBatches,
                 supabaseBatches, writes>>

\* clearDatabase of load-data-replit-only.ts: every table is deleted from; a
\* delete that throws is logged and passed over (failing is the table of that
\* delete, 0 when no delete throws)
clearDatabase ==
  /\ loader.pc = "clear"
  /\ loader.script = "replit"
  /\ \E failing \in {0} \cup Entities :
       replitBatches' = [e \in Entities |->
                           IF e = failing THEN replitBatches[e] ELSE {}]
  /\ loader' = [loader EXCEPT !.pc = "read", !.entity = 1]
  /\ UNCHANGED <<storeVars, response, now, http, groqApiKey, supabaseBatches, writes>>

\* clearDatabases of load-data.ts: nothing in a dry run; else, for every table,
\* the delete from Replit and then the delete from Supabase, whose error is
\* returned and not read; a delete from Replit that throws skips the table
clearDatabases ==
  /\ loader.pc = "clear"
  /\ loader.script = "dual"
  /\ IF DRY_RUN
       THEN UNCHANGED <<replitBatches, supabaseBatches>>
       ELSE \E failing \in {0} \cup Entities, at \in {"replit", "supabase"} :
              /\ replitBatches' =
                   [e \in Entities |->
                      IF e = failing /\ at = "replit" THEN replitBatches[e] ELSE {}]
              /\ supabaseBatches' =
                   [e \in Entities |->
                      IF e = failing THEN supabaseBatches[e] ELSE {}]
  /\ loader' = [loader EXCEPT !.pc = "read", !.entity = 1]
  /\ UNCHANGED <<storeVars, response, now, http, groqApiKey, writes>>

\* readCSV of the file of the next entity type, then the mapping of its
\* records; a file that is missing or unreadable rejects and the run exits
readCSV ==
  /\ loader.pc = "read"
  /\ \E found \in BOOLEAN :
       loader' = IF found
                   THEN [loader EXCEPT !.pc = "insert", !.i = 0,
                                       !.n = loader.files[loader.entity],
                                       !.read = @ \cup {loader.entity}]
                   ELSE Exited(1)
  /\ UNCHANGED <<storeVars, response, now, http, groqApiKey, replitBatches,
                 supabaseBatches, writes>>

\* insertInBatches of load-data-replit-only.ts, one turn of its loop: the
\* batch at i is inserted; an insert that throws ends the run
insertInBatchesReplit ==
  /\ loader.pc = "insert"
  /\ loader.script = "replit"
  /\ IF loader.i >= loader.n
       THEN /\ loader' = AfterInsertInBatches
            /\ UNCHANGED <<replitBatches, writes>>
       ELSE \E ok \in BOOLEAN :
              LET e == loader.entity
                  batch == Batch(loader.i, loader.n)
              IN  /\ writes' = Append(writes, Attempt(e, "replit", batch, ok))
                  /\ IF ok
                       THEN /\ replitBatches' =
                                 [replitBatches EXCEPT ![e] = @ \cup {batch}]
                            /\ loader' = [loader EXCEPT !.i = @ + BATCH_SIZE]
                       ELSE /\ loader' = Exited(1)
                            /\ UNCHANGED replitBatches
  /\ UNCHANGED <<storeVars, response, now, http, groqApiKey, supabaseBatches>>

\* both inserts are made whatever the first one does
DualWriteApart(replitOk, supabaseOk) == [replit |-> replitOk, supabase |-> supabaseOk]

\* the targets that take a batch: the insert into Supabase comes after the
\* insert into Replit in one try block, so it is not reached when that throws
DualWrite(replitOk, supabaseOk) ==
  [replit |-> replitOk, supabase |-> replitOk /\ supabaseOk]

\* insertInBatches of load-data.ts, one turn of its loop: nothing in a dry
\* run; else the batch at i is inserted into Replit and then, with its keys in
\* snake case, into Supabase, which refuses a key that is not a column; an
\* insert that fails ends the run
insertInBatches ==
  /\ loader.pc = "insert"
  /\ loader.script = "dual"
  /\ IF DRY_RUN \/ loader.i >= loader.n
       THEN /\ loader' = AfterInsertInBatches
            /\ UNCHANGED <<replitBatches, supabaseBatches, writes>>
       ELSE \E replitOk \in BOOLEAN, supabaseOk \in BOOLEAN :
              LET e == loader.entity
                  batch == Batch(loader.i, loader.n)
                  accepted == supabaseOk /\ SnakeKeysExist(EntityTypes[e])
                  took == DualWrite(replitOk, accepted)
              IN  /\ writes' = writes \o
                       (IF replitOk
                          THEN <<Attempt(e, "replit", batch, TRUE),
                                 Attempt(e, "supabase", batch, accepted)>>
                          ELSE <<Attempt(e, "replit", batch, FALSE)>>)
                  /\ replitBatches' =
                       IF took.replit
                         THEN [replitBatches EXCEPT ![e] = @ \cup {batch}]
                         ELSE replitBatches
                  /\ supabaseBatches' =
                       IF took.supabase
                         THEN [supabaseBatches EXCEPT ![e] = @ \cup {batch}]
                         ELSE supabaseBatches
                  /\ loader' = IF took.replit /\ took.supabase
                                 THEN [loader EXCEPT !.i = @ + BATCH_SIZE]
                                 ELSE Exited(1)
  /\ UNCHANGED <<storeVars, response, now, http, groqApiKey>>

(***************************************************************************)
(* init-db.ts and initializeSampleData of data-loader.ts.  Ids are the     *)
(* numbers of the seeded ids (BR001 is 1, C00001 is 1, L000001 is 1), and  *)
(* dates are numbered from 2024-01-01.  The random figures of the seeded   *)
(* rows are one value of their range.                                      *)
(***************************************************************************)
\* (5000 + Math.random() * 45000).toFixed(2)
SeedAmounts == {20000}

\* Math.random() * 100
SeedScores == {50}

SeedBranches ==
  <<[branchId |-> 1, branchName |-> "Nairobi Central", region |-> "Nairobi"],
    [branchId |-> 2, branchName |-> "Mombasa Road", region |-> "Nairobi"],
    [branchId |-> 3, branchName |-> "Kisumu Main", region |-> "Western"],
    [branchId |-> 4, branchName |-> "Eldoret Hub", region |-> "Rift Valley"],
    [branchId |-> 5, branchName |-> "Nakuru Plaza", region |-> "Central"]>>

SeedOfficers ==
  <<[officerId |-> 1, role |-> "Loan Officer"],
    [officerId |-> 2, role |-> "Branch Manager"],
    [officerId |-> 3, role |-> "Loan Officer"],
    [officerId |-> 4, role |-> "Loan Officer"],
    [officerId |-> 5, role |-> "Loan Officer"]>>

\* for (let i = 1; i <= 100; i++): branches[i % branches.length]
SeedCustomers ==
  [i \in 1..SeedCustomerCount |->
     [customerId |-> i,
      primaryBranch |-> SeedBranches[(i % Len(SeedBranches)) + 1].branchId]]

\* loanStatus: i % 5 === 0 ? "completed" : "active"
SeedLoanStatus(i) == IF i % SeedCompletedEvery = 0 THEN "completed" ELSE "active"

\* for (let i = 0; i < customers.length * 2; i++): customers[i % customers.length]
SeedLoans(amount) ==
  [k \in 1..(SeedCustomerCount * SeedLoansPerCustomer) |->
     LET i == k - 1 IN
       [loanId |-> i + 1,
        customerId |-> SeedCustomers[(i % SeedCustomerCount) + 1].customerId,
        amount |-> amount,
        loanStatus |-> SeedLoanStatus(i)]]

\* the row of a day and a branch: a target of 60000 with 80 percent of it
\* collected, 200000 disbursed and 10000 of arrears
SeedDailyProfile(day) ==
  [date |-> day, recruitedToday |-> 2, disbursedAmountKsh |-> 200000,
   dailyDuesKsh |-> 60000, collectedKsh |-> 48000, arrearsNewKsh |-> 10000,
   parPercent |-> 5, dailyTargetKsh |-> 60000]

\* for each day from 2024-01-01 to 2024-11-01, for each branch
SeedDailyCount == SeedDays * Len(SeedBranches)

SeedDaily(k) ==
  DailyRow(SeedBranches[((k - 1) % Len(SeedBranches)) + 1].branchId,
           SeedDailyProfile(((k - 1) \div Len(SeedBranches)) + 1))

\* dailyPerformance.slice(i, i + batchSize), as the range of its positions
SeedBatch(i) == [lo |-> i + 1, hi |-> Min(i + batchSize, SeedDailyCount)]

SeedAiFeatures(score) ==
  [i \in 1..SeedCustomerCount |->
     [customerId |-> SeedCustomers[i].customerId, riskScore0100 |-> score]]

\* customers.filter((_, i) => i % 10 === 0), i counted from 0
SeedFraudSignals ==
  {[customerId |-> SeedCustomers[i].customerId] :
     i \in {j \in 1..SeedCustomerCount : (j - 1) % SeedFraudEvery = 0}}

Range(list) == {list[i] : i \in DOMAIN list}

\* the position of daily_branch_performance among the entity types
DailyEntity == CHOOSE e \in Entities : EntityTypes[e] = "daily_branch_performance"

\* the awaits of initializeSampleData, in their order
SeedStages ==
  <<"branches", "officers", "customers", "loans", "daily", "aiFeatures", "fraudSignals">>

StageAfter(stage) ==
  LET k == CHOOSE j \in DOMAIN SeedStages : SeedStages[j] = stage
  IN  IF k = Len(SeedStages) THEN "done" ELSE SeedStages[k + 1]

\* a run of init-db.ts is started, for the first time or again
startInitDb ==
  /\ loader.script = "init-db"
  /\ loader.pc \in {"start", "exited"}
  /\ loader.runs < MaxRuns
  /\ loader' = [loader EXCEPT !.pc = "main", !.runs = @ + 1, !.exitCode = -1,
                              !.i = 0, !.seeded = FALSE]
  /\ UNCHANGED <<storeVars, response, now, http, groqApiKey, replitBatches,
                 supabaseBatches, writes>>

\* main of init-db.ts up to the call of initializeSampleData: the select of one
\* customer; an error of the select ends the run with status 1
main ==
  /\ loader.script = "init-db"
  /\ loader.pc = "main"
  /\ \E ok \in BOOLEAN :
       LET existingCustomers == IF customers = {} THEN {}
                                ELSE {CHOOSE c \in customers : TRUE}
       IN  loader' = IF ~ok THEN Exited(1)
                     ELSE IF Cardinality(existingCustomers) = 0
                       THEN [loader EXCEPT !.pc = SeedStages[1], !.seeded = TRUE]
                       ELSE Exited(0)
  /\ UNCHANGED <<storeVars, response, now, http, groqApiKey, replitBatches,
                 supabaseBatches, writes>>

\* initializeSampleData, one await at a time: the bulk insert of the stage,
\* which passes over the rows whose key is taken; an insert that throws ends
\* the run with status 1, the return of the last ends it with status 0
initializeSampleData(stage) ==
  /\ loader.script = "init-db"
  /\ loader.pc = stage
  /\ \E ok \in BOOLEAN, amount \in SeedAmounts, score \in SeedScores :
       LET i == loader.i
           batch == SeedBatch(i)
           lastBatch == i + batchSize >= SeedDailyCount
           next == IF stage = "daily" /\ ~lastBatch
                     THEN [loader EXCEPT !.i = @ + batchSize]
                     ELSE IF StageAfter(stage) = "done"
                       THEN Exited(0)
                       ELSE [loader EXCEPT !.pc = StageAfter(stage)]
       IN  /\ loader' = IF ok THEN next ELSE Exited(1)
           /\ branches' =
                IF ok /\ stage = "branches"
                  THEN branches \cup
                         {x \in Range(SeedBranches) :
                            \A b \in branches : b.branchId # x.branchId}
                  ELSE branches
           /\ officers' =
                IF ok /\ stage = "officers"
                  THEN officers \cup
                         {x \in Range(SeedOfficers) :
                            \A o \in officers : o.officerId # x.officerId}
                  ELSE officers
           /\ customers' =
                IF ok /\ stage = "customers"
                  THEN customers \cup
                         {x \in Range(SeedCustomers) :
                            \A c \in customers : c.customerId # x.customerId}
                  ELSE customers
           /\ loans' =
                IF ok /\ stage = "loans"
                  THEN loans \cup
                         {x \in Range(SeedLoans(amount)) :
                            \A l \in loans : l.loanId # x.loanId}
                  ELSE loans
           /\ dailyBranchPerformance' =
                IF ok /\ stage = "daily"
                  THEN dailyBranchPerformance
                         (+) SetToBag({SeedDaily(k) : k \in batch.lo..batch.hi})
                  ELSE dailyBranchPerformance
           /\ aiCustomerFeatures' =
                IF ok /\ stage = "aiFeatures"
                  THEN aiCustomerFeatures \cup
                         {x \in Range(SeedAiFeatures(score)) :
                            \A a \in aiCustomerFeatures : a.customerId # x.customerId}
                  ELSE aiCustomerFeatures
           /\ fraudSignals' =
                IF ok /\ stage = "fraudSignals"
                  THEN fraudSignals \cup
                         {x \in SeedFraudSignals :
                            \A f \in fraudSignals : f.customerId # x.customerId}
                  ELSE fraudSignals
           /\ writes' = IF stage = "daily"
                          THEN Append(writes, Attempt(DailyEntity, "storage", batch, ok))
                          ELSE writes
  /\ response' = NoResponse
  /\ UNCHANGED <<now, http, groqApiKey, replitBatches, supabaseBatches>>

\* time passes between two statements: NOW() reads a later time
Tick ==
  /\ now < MaxClock
  /\ now' = now + 1
  /\ UNCHANGED <<storeVars, response, http, auxVars>>

\* the branch aggregations: branches and daily rows
Next ==
  \/ createBranch
  \/ createDailyBranchPerformance
  \/ getBranchPerformance
  \/ getDashboardMetrics

Spec == Init /\ [][Next]_vars

\* the regional aggregation: branches, customers and daily rows
NextRegional ==
  \/ createBranch
  \/ createCustomer
  \/ createDailyBranchPerformance
  \/ getRegionalMetrics

SpecRegional == Init /\ [][NextRegional]_vars

\* the portfolio figures: loans and daily rows
NextLoans ==
  \/ createLoan
  \/ createDailyBranchPerformance
  \/ getDashboardMetrics

SpecLoans == Init /\ [][NextLoans]_vars

\* the branch ranking: more branches than the ranking keeps
NextRank ==
  \/ bulkInsertBranches
  \/ bulkInsertDailyPerformance
  \/ getDashboardMetrics

SpecRank == Init /\ [][NextRank]_vars

\* sizes of the seeded lists of the alerts specification
AlertSizes == {1, AlertLimit, AlertLimit + AlertExtra}

\* the alerts: more scored customers than the alert list keeps
NextAlerts ==
  \/ bulkInsertCustomers(AlertSizes)
  \/ bulkInsertAiFeatures(AlertSizes)
  \/ getDashboardMetrics

SpecAlerts == Init /\ [][NextAlerts]_vars

\* sizes of the seeded lists of the fraud specification: of AI rows, and of
\* customers
FraudSizes == {1, FraudLimit, FraudLimit + FraudExtra}

FraudCustomers == {FraudLimit + FraudExtra}

\* the fraud cases: more scored customers than getFraudCases returns
NextFraud ==
  \/ bulkInsertCustomers(FraudCustomers)
  \/ bulkInsertAiFeatures(FraudSizes)
  \/ createFraudSignal
  \/ getFraudCases

SpecFraud == Init /\ [][NextFraud]_vars

\* repeated reads: the four read operations and the clock over a small store
NextRepeat ==
  \/ createBranch
  \/ createCustomer
  \/ createAiFeatures
  \/ Tick
  \/ getDashboardMetrics
  \/ getBranchPerformance
  \/ getRegionalMetrics
  \/ getFraudCases

SpecRepeat == Init /\ [][NextRepeat]_vars

\* the fraud route over a small store
NextFraudRoute ==
  \/ createCustomer
  \/ createAiFeatures
  \/ fraudCasesRoute

SpecFraudRoute == Init /\ [][NextFraudRoute]_vars

\* the branch performance route over branches and daily rows
NextBranchRoute ==
  \/ createBranch
  \/ createDailyBranchPerformance
  \/ branchPerformanceRoute

SpecBranchRoute == Init /\ [][NextBranchRoute]_vars

\* lookups by id, directly and through the customer route
NextLookup ==
  \/ createCustomer
  \/ createBranch
  \/ createOfficer
  \/ getCustomer
  \/ getBranch
  \/ getOfficer
  \/ customerRoute

SpecLookup == Init /\ [][NextLookup]_vars

\* sizes of the seeded customer lists of the orphaned-rows specification
\* the insights endpoint, for each value the environment can give the API key
InitInsights ==
  /\ branches = {}
  /\ customers = {}
  /\ loans = {}
  /\ dailyBranchPerformance = EmptyBag
  /\ aiCustomerFeatures = {}
  /\ fraudSignals = {}
  /\ officers = {}
  /\ groqApiKey \in GroqApiKeys
  /\ loader = Idle
  /\ replitBatches = NoBatches
  /\ supabaseBatches = NoBatches
  /\ writes = <<>>
  /\ response = NoResponse
  /\ now = 0
  /\ http = NoRequest

NextInsights ==
  \/ insightsQueryRoute
  \/ Tick

SpecInsights == InitInsights /\ [][NextInsights]_vars

\* a run of one of the CSV loaders: the script, its flags and environment, the
\* CSV files and what the tables hold before are chosen at the start
CsvLoaderStart ==
  /\ \E old \in {NoBatches, OldBatches} :
       replitBatches = old /\ supabaseBatches = old
  /\ \E script \in {"replit", "dual"}, dryRun \in BOOLEAN, credentials \in BOOLEAN,
        files \in CsvInputs :
       /\ script = "replit" => (~dryRun /\ credentials)
       /\ loader = [script |-> script, dryRun |-> dryRun, credentials |-> credentials,
                    files |-> files, before |-> replitBatches,
                    pc |-> IF script = "dual" THEN "start" ELSE "clear",
                    entity |-> 0, i |-> 0, n |-> 0, read |-> {}, exitCode |-> -1]

\* init-db.ts before its first run
InitDbStart ==
  /\ replitBatches = NoBatches
  /\ supabaseBatches = NoBatches
  /\ loader = [script |-> "init-db", pc |-> "start", runs |-> 0, i |-> 0,
               seeded |-> FALSE, exitCode |-> -1]

\* the loaders over an empty store
InitLoader ==
  /\ branches = {}
  /\ customers = {}
  /\ loans = {}
  /\ dailyBranchPerformance = EmptyBag
  /\ aiCustomerFeatures = {}
  /\ fraudSignals = {}
  /\ officers = {}
  /\ groqApiKey = Absent
  /\ response = NoResponse
  /\ now = 0
  /\ http = NoRequest
  /\ writes = <<>>
  /\ (CsvLoaderStart \/ InitDbStart)

NextLoader ==
  \/ checkCredentials
  \/ clearDatabase
  \/ clearDatabases
  \/ readCSV
  \/ insertInBatchesReplit
  \/ insertInBatches
  \/ startInitDb
  \/ main
  \/ \E stage \in Range(SeedStages) : initializeSampleData(stage)

SpecLoader == InitLoader /\ [][NextLoader]_vars

\* initializeSampleData is called on an empty store, and the dashboard is read
InitSeed ==
  /\ branches = {}
  /\ customers = {}
  /\ loans = {}
  /\ dailyBranchPerformance = EmptyBag
  /\ aiCustomerFeatures = {}
  /\ fraudSignals = {}
  /\ officers = {}
  /\ groqApiKey = Absent
  /\ response = NoResponse
  /\ now = 0
  /\ http = NoRequest
  /\ writes = <<>>
  /\ replitBatches = NoBatches
  /\ supabaseBatches = NoBatches
  /\ loader = [script |-> "init-db", pc |-> SeedStages[1], runs |-> 1, i |-> 0,
               seeded |-> TRUE, exitCode |-> -1]

NextSeed ==
  \/ \E stage \in Range(SeedStages) : initializeSampleData(stage)
  \/ getDashboardMetrics
  \/ Tick

SpecSeed == InitSeed /\ [][NextSeed]_vars

OrphanCustomers == {1, MaxCustomers}

\* orphaned rows: the three per-branch and per-region reads over stores whose
\* daily rows may name a branch that does not exist
NextOrphan ==
  \/ createBranch
  \/ bulkInsertCustomers(OrphanCustomers)
  \/ createDailyBranchPerformance
  \/ getBranchPerformance
  \/ getRegionalMetrics
  \/ getDashboardMetrics

SpecOrphan == Init /\ [][NextOrphan]_vars

(***************************************************************************)
(* The figures the claims speak of, taken from the tables directly: every  *)
(* daily row of a group once.                                              *)
(***************************************************************************)
RECURSIVE TotalOf(_, _)
TotalOf(K, col) ==
  IF K = {} THEN 0
  ELSE LET d == CHOOSE x \in K : TRUE
       IN  CopiesIn(d, dailyBranchPerformance) * d[col] + TotalOf(K \ {d}, col)

RECURSIVE NumberOf(_)
NumberOf(K) ==
  IF K = {} THEN 0
  ELSE LET d == CHOOSE x \in K : TRUE
       IN  CopiesIn(d, dailyBranchPerformance) + NumberOf(K \ {d})

RowsOfBranch(b) == {d \in DailyKinds : d.branchId = b}

RowsOfRegion(reg) ==
  {d \in DailyKinds : \E b \in branches : b.branchId = d.branchId /\ b.region = reg}

\* 100 * collected / dues over the rows K, 0 when the dues sum to 0
RateOf(K) ==
  IF TotalOf(K, "dailyDuesKsh") > 0
    THEN Quot(100 * TotalOf(K, "collectedKsh"), TotalOf(K, "dailyDuesKsh"))
    ELSE Zero

MeanOf(K, col) == IF NumberOf(K) = 0 THEN Zero ELSE Quot(TotalOf(K, col), NumberOf(K))

Hundred == [num |-> 100, den |-> 1]

IsDashboard == response.op = "getDashboardMetrics"

IsPerformance == response.op = "getBranchPerformance"

IsRegional == response.op = "getRegionalMetrics"

TopList == response.value.topPerformingBranches

\* C1: the collection rate reported for the portfolio and for each top branch
\* by getDashboardMetrics, and for each branch by getBranchPerformance, is
\* 100 * (sum of collected) / (sum of dues) over the daily rows of the group,
\* and 0 when the dues sum to 0: the ratio of the sums.
C1_RatioOfSums ==
  /\ IsDashboard =>
        /\ response.value.collectionRate = RateOf(DailyKinds)
        /\ \A i \in 1..Len(TopList) :
             TopList[i].collectionRate = RateOf(RowsOfBranch(TopList[i].branchId))
  /\ IsPerformance =>
        \A r \in response.value : r.collectionRate = RateOf(RowsOfBranch(r.branchId))

\* getBranchPerformance reports 90 for a branch whose rows are (dues 1000,
\* collected 800) and (dues 2000, collected 1900)
C1_Witness ==
  /\ IsPerformance
  /\ \E r \in response.value :
       /\ r.collectionRate = [num |-> 90, den |-> 1]
       /\ Cardinality(RowsOfBranch(r.branchId)) = 2

\* a rate within [0, 100] when the rows K collect no more than their dues, and
\* 0 when their dues sum to 0
RateInBounds(rate, K) ==
  /\ TotalOf(K, "collectedKsh") <= TotalOf(K, "dailyDuesKsh") =>
        ~Less(rate, Zero) /\ ~Less(Hundred, rate)
  /\ TotalOf(K, "dailyDuesKsh") = 0 => rate = Zero

\* C2: for every group of getDashboardMetrics, getBranchPerformance and
\* getRegionalMetrics the collection rate lies in [0, 100] whenever the group's
\* summed collected is at most its summed dues, and is 0 whenever the summed
\* dues is 0.
C2_RateBounds ==
  /\ IsDashboard =>
        /\ RateInBounds(response.value.collectionRate, DailyKinds)
        /\ \A i \in 1..Len(TopList) :
             RateInBounds(TopList[i].collectionRate, RowsOfBranch(TopList[i].branchId))
  /\ IsPerformance =>
        \A r \in response.value : RateInBounds(r.collectionRate, RowsOfBranch(r.branchId))
  /\ IsRegional =>
        \A r \in response.value : RateInBounds(r.collectionRate, RowsOfRegion(r.region))

\* C3: getRegionalMetrics reports for each region the sums of disbursedAmountKsh
\* and collectedKsh over the daily rows of the region's branches, every row
\* once, whatever the number of customers of those branches.
C3_RegionalSums ==
  IsRegional =>
    \A r \in response.value :
      /\ r.totalDisbursed = TotalOf(RowsOfRegion(r.region), "disbursedAmountKsh")
      /\ r.totalCollected = TotalOf(RowsOfRegion(r.region), "collectedKsh")

\* C4: getRegionalMetrics reports for each region the collection rate
\* 100 * (sum of collected) / (sum of dues) over the region's daily rows, every
\* row once (0 when the dues sum to 0), so independent of the customers.
C4_RegionalRate ==
  IsRegional =>
    \A r \in response.value : r.collectionRate = RateOf(RowsOfRegion(r.region))

\* C5: getRegionalMetrics reports for each region avgParPercent as the
\* unweighted mean of parPercent over the region's daily rows, every row once.
C5_RegionalAvgPar ==
  IsRegional =>
    \A r \in response.value : r.avgParPercent = MeanOf(RowsOfRegion(r.region), "parPercent")

\* C6: getRegionalMetrics returns exactly one record per region that has a
\* branch; a region whose branches have no daily rows has its record, with
\* collectionRate 0, avgParPercent 0 and zero totals.
C6_RegionPerBranchRegion ==
  IsRegional =>
    /\ {r.region : r \in response.value} = {b.region : b \in branches}
    /\ \A r1, r2 \in response.value : r1.region = r2.region => r1 = r2
    /\ \A r \in response.value :
         RowsOfRegion(r.region) = {} =>
           /\ r.collectionRate = Zero
           /\ r.avgParPercent = Zero
           /\ r.totalDisbursed = 0
           /\ r.totalCollected = 0

\* a region without daily rows reported beside a region that has some
C6_Witness ==
  /\ IsRegional
  /\ \E r1, r2 \in response.value :
       /\ RowsOfRegion(r1.region) = {}
       /\ RowsOfRegion(r2.region) # {}
       /\ r1.collectionRate = Zero /\ r1.totalDisbursed = 0

\* the record of zero aggregates of a branch
ZeroPerformance(r) ==
  /\ r.dailyTarget = Zero
  /\ r.dailyCollected = Zero
  /\ r.disbursedAmount = 0
  /\ r.arrearsAmount = 0
  /\ r.parPercent = Zero
  /\ r.collectionRate = Zero
  /\ r.recruitedToday = 0

\* C7: an empty group gets zero aggregates: getBranchPerformance for an existing
\* branch without daily rows yields that branch's record, all zero, and
\* getDashboardMetrics on an empty store yields zero totals, zero rates and
\* empty lists.
C7_ZeroForEmptyGroup ==
  /\ ( /\ IsPerformance
       /\ response.branchId # AllBranches
       /\ \E b \in branches : b.branchId = response.branchId
       /\ RowsOfBranch(response.branchId) = {} ) =>
        \E r \in response.value : r.branchId = response.branchId /\ ZeroPerformance(r)
  /\ ( /\ IsDashboard
       /\ branches = {} /\ customers = {} /\ loans = {}
       /\ dailyBranchPerformance = EmptyBag /\ aiCustomerFeatures = {} ) =>
        /\ response.value.totalDisbursed = 0
        /\ response.value.collectionRate = Zero
        /\ response.value.totalArrears = 0
        /\ response.value.parRate = Zero
        /\ response.value.activeCustomers = 0
        /\ response.value.activeLoans = 0
        /\ response.value.topPerformingBranches = <<>>
        /\ response.value.recentAlerts = <<>>

\* the records of getBranchPerformance('all') for the branch b
InAll(b) == {r \in PerformanceOfAll : r.branchId = b}

\* C8 as stated: for every branch id b with at least one daily row,
\* getBranchPerformance(b) returns exactly one record, equal field for field to
\* the record for b of getBranchPerformance('all').
C8_OneRecordForAnyId ==
  ( /\ IsPerformance
    /\ response.branchId # AllBranches
    /\ RowsOfBranch(response.branchId) # {} ) =>
      /\ Cardinality(response.value) = 1
      /\ response.value = InAll(response.branchId)

\* C8 amended: for every existing branch b (a row of branches) with at least
\* one daily row, getBranchPerformance(b) returns exactly one record, equal
\* field for field to the record for b of getBranchPerformance('all').
C8_OneRecordForExistingBranch ==
  ( /\ IsPerformance
    /\ response.branchId # AllBranches
    /\ \E b \in branches : b.branchId = response.branchId
    /\ RowsOfBranch(response.branchId) # {} ) =>
      /\ Cardinality(response.value) = 1
      /\ response.value = InAll(response.branchId)

\* getBranchPerformance(b) answered with the one record of an existing branch
\* that has a daily row, while 'all' lists a second branch as well
C8_Witness ==
  /\ IsPerformance
  /\ response.branchId # AllBranches
  /\ \E b \in branches : b.branchId = response.branchId
  /\ NumberOf(RowsOfBranch(response.branchId)) = 1
  /\ Cardinality(response.value) = 1
  /\ Cardinality(PerformanceOfAll) = 2

\* the sum of the amounts of the loans of status st, loan by loan
RECURSIVE AmountUpTo(_, _)
AmountUpTo(n, st) ==
  IF n = 0 THEN 0
  ELSE AmountUpTo(n - 1, st) +
       (IF \E l \in loans : l.loanId = n /\ l.loanStatus = st
          THEN (CHOOSE l \in loans : l.loanId = n).amount ELSE 0)

\* C9: totalDisbursed of getDashboardMetrics is the sum of amount over the
\* loans whose status is 'Active' and activeLoans is the number of those
\* loans; a loan of any other status adds to neither.
C9_ActiveLoansOnly ==
  IsDashboard =>
    /\ response.value.totalDisbursed = AmountUpTo(MaxLoans, "Active")
    /\ response.value.activeLoans =
         Cardinality({n \in LoanIds : \E l \in loans : l.loanId = n /\ l.loanStatus = "Active"})

\* one Active loan of 5000 and one completed loan of 9000 reported as 5000
C9_Witness ==
  /\ IsDashboard
  /\ \E l \in loans : l.loanStatus = "Active" /\ l.amount = 5000
  /\ \E l \in loans : l.loanStatus = "completed" /\ l.amount = 9000
  /\ Cardinality(loans) = 2
  /\ response.value.totalDisbursed = 5000
  /\ response.value.activeLoans = 1

\* C10: topPerformingBranches is sorted non-increasing by collection rate,
\* holds min(10, number of branches) entries, each another branch, and no
\* branch left out of it has a strictly higher rate than a branch in it.
C10_TopBranches ==
  IsDashboard =>
    /\ \A i \in 1..(Len(TopList) - 1) :
         ~Less(TopList[i].collectionRate, TopList[i + 1].collectionRate)
    /\ Len(TopList) = Min(TopBranchLimit, Cardinality(branches))
    /\ \A i \in 1..Len(TopList) : \E b \in branches : b.branchId = TopList[i].branchId
    /\ \A i, j \in 1..Len(TopList) : TopList[i].branchId = TopList[j].branchId => i = j
    /\ \A b \in branches :
         (\A i \in 1..Len(TopList) : TopList[i].branchId # b.branchId) =>
           \A i \in 1..Len(TopList) :
             ~Less(TopList[i].collectionRate, RateOf(RowsOfBranch(b.branchId)))

\* more branches than the limit, as many listed as the limit allows, three
\* different rates among the listed, the highest first
C10_Witness ==
  /\ IsDashboard
  /\ Cardinality(branches) > TopBranchLimit
  /\ Len(TopList) = TopBranchLimit
  /\ Less(TopList[2].collectionRate, TopList[1].collectionRate)
  /\ Less(TopList[TopBranchLimit].collectionRate, TopList[2].collectionRate)

\* C11: when two branches have identical collection rates their relative order
\* in the ranking is fixed by ascending branch id: within topPerformingBranches
\* a branch of equal rate and lower id comes first, and a branch that is left
\* out of the list has a higher id than every listed branch of its rate.
C11_TieByAscendingId ==
  IsDashboard =>
    /\ \A i, j \in 1..Len(TopList) :
         (i < j /\ TopList[i].collectionRate = TopList[j].collectionRate) =>
           TopList[i].branchId < TopList[j].branchId
    /\ \A b \in branches :
         (\A i \in 1..Len(TopList) : TopList[i].branchId # b.branchId) =>
           \A i \in 1..Len(TopList) :
             TopList[i].collectionRate = RateOf(RowsOfBranch(b.branchId)) =>
               TopList[i].branchId < b.branchId

AlertList == response.value.recentAlerts

\* the customers that have an AI feature row, each with its score
ScoredCustomers ==
  { [customerId |-> c.customerId, riskScore |-> a.riskScore0100] :
      <<c, a>> \in {x \in customers \X aiCustomerFeatures :
                      x[1].customerId = x[2].customerId} }

\* the score in the AI feature row of a customer
ScoreOf(id) == (CHOOSE a \in aiCustomerFeatures : a.customerId = id).riskScore0100

\* C12: recentAlerts lists only customers that have an AI feature row of risk
\* score >= 40, in non-increasing order of the score, at most 10 of them, and
\* no customer that is left out has a strictly higher score than a listed one.
C12_RecentAlerts ==
  IsDashboard =>
    /\ \A i \in 1..Len(AlertList) :
         /\ \E sc \in ScoredCustomers : sc.customerId = AlertList[i].customerId
         /\ ScoreOf(AlertList[i].customerId) >= 40
    /\ \A i \in 1..(Len(AlertList) - 1) :
         ScoreOf(AlertList[i].customerId) >= ScoreOf(AlertList[i + 1].customerId)
    /\ Len(AlertList) <= 10
    /\ \A sc \in ScoredCustomers :
         (\A i \in 1..Len(AlertList) : AlertList[i].customerId # sc.customerId) =>
           \A i \in 1..Len(AlertList) : sc.riskScore <= ScoreOf(AlertList[i].customerId)

\* eleven customers of score >= 40, among them a lowest one that is left out
\* of the ten listed, and the listed scores not all equal
C12_Witness ==
  /\ IsDashboard
  /\ Cardinality({sc \in ScoredCustomers : sc.riskScore >= 40}) > AlertLimit
  /\ Len(AlertList) = AlertLimit
  /\ ScoreOf(AlertList[1].customerId) > ScoreOf(AlertList[AlertLimit].customerId)
  /\ \E sc \in ScoredCustomers :
       /\ sc.riskScore >= 40
       /\ sc.riskScore < ScoreOf(AlertList[AlertLimit].customerId)
       /\ \A i \in 1..Len(AlertList) : AlertList[i].customerId # sc.customerId

IsFraud == response.op = "getFraudCases"

\* C13: getFraudCases('high') returns only customers of riskScore >= 70,
\* 'medium' only customers of 40 <= riskScore < 70, 'low' only customers of
\* riskScore < 40, and a call without a filter returns customers of every
\* score: the highest-scoring customer that has an AI row is among them.
C13_FilterBands ==
  IsFraud =>
    /\ \A i \in 1..Len(response.value) :
         LET score == response.value[i].riskScore IN
         /\ \E sc \in ScoredCustomers :
              sc.customerId = response.value[i].customerId /\ sc.riskScore = score
         /\ response.riskFilter = "high" => score >= 70
         /\ response.riskFilter = "medium" => score >= 40 /\ score < 70
         /\ response.riskFilter = "low" => score < 40
    /\ response.riskFilter = NoFilter =>
         /\ Len(response.value) = Min(50, Cardinality(ScoredCustomers))
         /\ \A s \in RiskScores :
              (\E sc \in ScoredCustomers : sc.riskScore = s) =>
                 \/ \E i \in 1..Len(response.value) : response.value[i].riskScore = s
                 \/ /\ Len(response.value) = 50
                    /\ \A i \in 1..Len(response.value) : response.value[i].riskScore >= s

\* a 'medium' result that lists customers of the scores 40 and 69 while the
\* store also holds customers of the scores 30 and 70
C13_Witness ==
  /\ IsFraud
  /\ response.riskFilter = "medium"
  /\ \E i, j \in 1..Len(response.value) :
       response.value[i].riskScore = 69 /\ response.value[j].riskScore = 40
  /\ \E sc \in ScoredCustomers : sc.riskScore = 70

\* the customers listed in a result
IdsOf(cases) == {cases[i].customerId : i \in 1..Len(cases)}

\* the sets of customers that getFraudCases may list for a filter on this store
PossibleIds(riskFilter) == {IdsOf(FraudCases(riskFilter, tie)) : tie \in TieOrders}

\* the results for 'high', 'medium' and 'low' are pairwise disjoint and their
\* union is exactly the result without filter, which is what the route passes
\* to getFraudCases for 'all'
BandsPartitionAll ==
  \A H \in PossibleIds("high"), M \in PossibleIds("medium"), L \in PossibleIds("low") :
    /\ H \cap M = {}
    /\ H \cap L = {}
    /\ M \cap L = {}
    /\ H \cup M \cup L = IdsOf(response.value)

\* C14 as stated: for every store the three bands partition the 'all' result.
C14_BandsPartitionEveryStore ==
  (IsFraud /\ response.riskFilter = NoFilter) => BandsPartitionAll

\* C14: for every store in which at most 50 customers have an AI feature row,
\* the results for 'high', 'medium' and 'low' are pairwise disjoint and their
\* union is exactly the 'all' result.
C14_BandsPartitionWithinLimit ==
  (IsFraud /\ response.riskFilter = NoFilter /\ Cardinality(ScoredCustomers) <= 50) =>
    BandsPartitionAll

\* an 'all' result of 50 customers, the first of a score in the high band and
\* the last of a score below it
C14_Witness ==
  /\ IsFraud
  /\ response.riskFilter = NoFilter
  /\ Cardinality(ScoredCustomers) = 50
  /\ Len(response.value) = 50
  /\ response.value[1].riskScore >= 70
  /\ response.value[50].riskScore < 70

\* the band that the claims give to a filter
InBand(riskFilter, score) ==
  /\ riskFilter = "high" => score >= 70
  /\ riskFilter = "medium" => score >= 40 /\ score < 70
  /\ riskFilter = "low" => score < 40

MatchingCustomers(riskFilter) == {sc \in ScoredCustomers : InBand(riskFilter, sc.riskScore)}

\* C15: every getFraudCases result is in non-increasing order of riskScore, has
\* at most 50 entries, lists each customer at most once, and consists of the
\* highest-scoring customers that match the filter: as many as the limit
\* allows, and none that is left out scores higher than a listed one.
C15_FraudCasesOrderedAndCut ==
  IsFraud =>
    LET cases == response.value
        Matching == MatchingCustomers(response.riskFilter)
    IN  /\ \A i \in 1..(Len(cases) - 1) : cases[i].riskScore >= cases[i + 1].riskScore
        /\ Len(cases) <= 50
        /\ Len(cases) = Min(50, Cardinality(Matching))
        /\ \A i, j \in 1..Len(cases) : cases[i].customerId = cases[j].customerId => i = j
        /\ \A i \in 1..Len(cases) :
             [customerId |-> cases[i].customerId, riskScore |-> cases[i].riskScore] \in Matching
        /\ \A sc \in Matching :
             sc.customerId \notin IdsOf(cases) =>
               \A i \in 1..Len(cases) : sc.riskScore <= cases[i].riskScore

\* 51 customers in the medium band, one of them with a fraud signal: the 50
\* listed are not all of one score and the one left out scores lowest
C15_Witness ==
  /\ IsFraud
  /\ response.riskFilter = "medium"
  /\ fraudSignals # {}
  /\ Cardinality(MatchingCustomers("medium")) > 50
  /\ Len(response.value) = 50
  /\ response.value[1].riskScore > response.value[50].riskScore
  /\ \E sc \in MatchingCustomers("medium") :
       /\ sc.customerId \notin IdsOf(response.value)
       /\ sc.riskScore <= response.value[50].riskScore

\* the response is that of the same operation with the same arguments before
\* and after the step
SameCall ==
  /\ response.op # "none"
  /\ response'.op = response.op
  /\ IsPerformance => response'.branchId = response.branchId
  /\ IsFraud => response'.riskFilter = response.riskFilter

\* C16: calling getDashboardMetrics, getBranchPerformance, getRegionalMetrics
\* or getFraudCases a second time on an unchanged store returns the output of
\* the first call, field for field and in the same element order.
C16_SameOutputTwice ==
  [][(SameCall /\ UNCHANGED storeVars) => response'.value = response.value]_vars

\* the daily rows whose branchId matches no branch
OrphanRows == {d \in DailyKinds : \A b \in branches : b.branchId # d.branchId}

\* the number of times the regional join repeats a daily row of branch b: once
\* per customer of the branch, and once when it has none
Repeats(b) ==
  LET n == Cardinality({c \in customers : c.primaryBranch = b}) IN IF n = 0 THEN 1 ELSE n

\* the sum of a column, and the number of rows, over the repeated daily rows of
\* the branches B: rows of a branchId outside B add nothing
RECURSIVE RepeatedTotal(_, _)
RepeatedTotal(B, col) ==
  IF B = {} THEN 0
  ELSE LET b == CHOOSE x \in B : TRUE
       IN  Repeats(b.branchId) * TotalOf(RowsOfBranch(b.branchId), col)
             + RepeatedTotal(B \ {b}, col)

RECURSIVE RepeatedNumber(_)
RepeatedNumber(B) ==
  IF B = {} THEN 0
  ELSE LET b == CHOOSE x \in B : TRUE
       IN  Repeats(b.branchId) * NumberOf(RowsOfBranch(b.branchId))
             + RepeatedNumber(B \ {b})

BranchesOf(reg) == {b \in branches : b.region = reg}

\* C17: daily rows whose branchId matches no branch are skipped by the
\* per-branch and per-region aggregations.  getBranchPerformance('all') has a
\* record for every existing branch that has rows and for no other id, the
\* ranking one for every existing branch, getRegionalMetrics one for every
\* region of an existing branch, and every sum, average and rate is taken over
\* the rows of existing branches alone.
C17_OrphanRowsSkipped ==
  /\ (IsPerformance /\ response.branchId = AllBranches) =>
        /\ {r.branchId : r \in response.value} =
             {b.branchId : b \in {x \in branches : RowsOfBranch(x.branchId) # {}}}
        /\ \A r \in response.value :
             LET K == RowsOfBranch(r.branchId) IN
             /\ r.disbursedAmount = TotalOf(K, "disbursedAmountKsh")
             /\ r.arrearsAmount = TotalOf(K, "arrearsNewKsh")
             /\ r.recruitedToday = TotalOf(K, "recruitedToday")
             /\ r.parPercent = MeanOf(K, "parPercent")
             /\ r.dailyCollected = MeanOf(K, "collectedKsh")
             /\ r.collectionRate = RateOf(K)
  /\ IsDashboard =>
        /\ Len(TopList) = Min(10, Cardinality(branches))
        /\ \A i \in 1..Len(TopList) :
             /\ \E b \in branches : b.branchId = TopList[i].branchId
             /\ TopList[i].disbursedAmount =
                  TotalOf(RowsOfBranch(TopList[i].branchId), "disbursedAmountKsh")
             /\ TopList[i].collectionRate = RateOf(RowsOfBranch(TopList[i].branchId))
  /\ IsRegional =>
        /\ {r.region : r \in response.value} = {b.region : b \in branches}
        /\ \A r \in response.value :
             LET B == BranchesOf(r.region)
                 dues == RepeatedTotal(B, "dailyDuesKsh")
             IN
             /\ r.totalBranches = Cardinality(B)
             /\ r.totalDisbursed = RepeatedTotal(B, "disbursedAmountKsh")
             /\ r.totalCollected = RepeatedTotal(B, "collectedKsh")
             /\ r.collectionRate =
                  IF dues > 0 THEN Quot(100 * RepeatedTotal(B, "collectedKsh"), dues) ELSE Zero
             /\ r.avgParPercent =
                  IF RepeatedNumber(B) = 0 THEN Zero
                  ELSE Quot(RepeatedTotal(B, "parPercent"), RepeatedNumber(B))

\* a store that holds an orphaned row of disbursed 5000 next to a row of an
\* existing branch of disbursed 3000: the read reports 3000 for that branch
\* or its region
C17_Witness ==
  /\ \E d \in OrphanRows : d.disbursedAmountKsh = 5000
  /\ \E d \in DailyKinds \ OrphanRows : d.disbursedAmountKsh = 3000
  /\ BagCardinality(dailyBranchPerformance) = 2
  /\ \/ IsPerformance /\ response.branchId = AllBranches
        /\ \E r \in response.value : r.disbursedAmount = 3000
     \/ IsDashboard /\ TopList[1].disbursedAmount = 3000
     \/ IsRegional /\ \E r \in response.value : r.totalDisbursed = 3000

\* C18: the portfolio-wide collectionRate, totalArrears and parRate of
\* getDashboardMetrics skip the daily rows whose branchId matches no branch:
\* they are the figures of the rows of existing branches, whatever orphaned
\* rows the store holds besides.
C18_PortfolioSkipsOrphans ==
  IsDashboard =>
    LET K == DailyKinds \ OrphanRows IN
    /\ response.value.collectionRate = RateOf(K)
    /\ response.value.totalArrears = TotalOf(K, "arrearsNewKsh")
    /\ response.value.parRate = MeanOf(K, "parPercent")

IsFraudRoute == http.route = "/api/fraud/cases"

IsBranchRoute == http.route = "/api/branches/performance"

\* the request was answered with 400 and made no call of the storage
RejectedBeforeStorage == http.status = 400 /\ http.invoked = <<>>

\* C19 as stated: GET /api/fraud/cases with a riskFilter outside {all, high,
\* medium, low} is answered with 400 and getFraudCases is not invoked.
C19_InvalidFilterRejected ==
  (IsFraudRoute /\ http.query.given
     /\ http.query.value \notin {"all", "high", "medium", "low"}) =>
    RejectedBeforeStorage

\* C19: GET /api/fraud/cases with a non-empty riskFilter outside {all, high,
\* medium, low} is answered with 400 and getFraudCases is not invoked for the
\* request; an absent or empty riskFilter is served as 'all', by a call of
\* getFraudCases without filter.
C19_NonEmptyInvalidFilterRejected ==
  IsFraudRoute =>
    /\ (http.query.given /\ http.query.value # ""
          /\ http.query.value \notin {"all", "high", "medium", "low"}) =>
         RejectedBeforeStorage
    /\ (~http.query.given \/ http.query.value = "") =>
         http.invoked = <<[op |-> "getFraudCases", riskFilter |-> NoFilter]>>

\* the request with riskFilter 'critical' on a store that holds a customer
\* with an AI feature row
C19_Witness ==
  /\ IsFraudRoute
  /\ http.query = Given("critical")
  /\ http.status = 400
  /\ ScoredCustomers # {}

\* C20: GET /api/branches/performance with a scope that is neither 'all' nor
\* the id of an existing branch is rejected as an invalid parameter, with no
\* call of getBranchPerformance.
C20_InvalidScopeRejected ==
  (IsBranchRoute /\ http.query.given /\ http.query.value # AllBranches
     /\ \A b \in branches : b.branchId # http.query.value) =>
    RejectedBeforeStorage

IsLookup == response.op \in {"getCustomer", "getBranch", "getOfficer"}

IsCustomerRoute == http.route = "/api/customers/:customerId"

\* the table that a lookup reads
TableOf(op) ==
  IF op = "getCustomer" THEN {c.customerId : c \in customers}
  ELSE IF op = "getBranch" THEN {b.branchId : b \in branches}
  ELSE {o.officerId : o \in officers}

\* C21: a lookup of a missing entity is a 'not found' result, not a fault.
\* getCustomer, getBranch and getOfficer return null for an id that has no
\* record (and the record for an id that has one), and the customer route,
\* when its lookup finds no customer, answers 404, not 500, having called
\* neither getAiFeatures nor getLoansForCustomer.
C21_MissingIsNotFound ==
  /\ IsLookup => (response.value = Null <=> response.id \notin TableOf(response.op))
  /\ (IsCustomerRoute /\ http.invoked[1].outcome # "throws"
        /\ \A c \in customers : c.customerId # http.query.value) =>
       /\ http.status = 404
       /\ Len(http.invoked) = 1
       /\ http.invoked[1].op = "getCustomer"
       /\ http.invoked[1].outcome = "null"

\* the route asked for customer 2 on a store that holds customer 1 only, and
\* answering 404
C21_Witness ==
  /\ IsCustomerRoute
  /\ http.query.value = 2
  /\ http.status = 404
  /\ {c.customerId : c \in customers} = {1}

\* C22: the daily_branch_performance table holds at most one row per (date,
\* branchId) pair.
C22_OneRowPerBranchAndDay ==
  \A d \in DailyKinds :
    /\ CopiesIn(d, dailyBranchPerformance) = 1
    /\ \A e \in DailyKinds : (e.date = d.date /\ e.branchId = d.branchId) => e = d

IsInsightsRoute == http.route = "/api/insights/query"

ValidAgentType == http.agentType.given /\ http.agentType.value \in validAgentTypes

\* a successful response whose API call is made exactly when a key is
\* configured, with the canned string when there is no key and the fallback
\* string when the call fails
InsightsAnswered ==
  /\ http.status = 200
  /\ (http.called # <<>>) <=> (http.key.given /\ http.key.value # "")
  /\ http.called = <<>> => http.body.response = MockResponse
  /\ (http.called # <<>> /\ http.called[1] \in {"fetchRejects", "notOk", "notJson"})
       => http.body.response = MockAfterError

\* C23 as stated: POST /api/insights/query with a non-empty query and a valid
\* agent type always yields a successful response, calls the external API only
\* when a key is configured, returns the canned string with no key and a
\* fallback string when the external call fails or is not OK.
C23_NonEmptyQueryAnswered ==
  (IsInsightsRoute /\ ValidAgentType /\ http.query.given
     /\ http.query.value.type = "string" /\ http.query.value.chars # <<>>)
    => InsightsAnswered

\* C23: POST /api/insights/query with a query that is non-empty after trimming
\* and a valid agent type always yields a successful response: the external API
\* is called only when a key is configured, with no key the canned string is
\* returned, and when the call fails or is not OK a fallback string is returned.
C23_NonBlankQueryAnswered ==
  (IsInsightsRoute /\ ValidAgentType /\ http.query.given
     /\ http.query.value.type = "string" /\ Trim(http.query.value.chars) # <<>>)
    => InsightsAnswered

C23_Witness ==
  /\ IsInsightsRoute /\ ValidAgentType
  /\ http.query = Given(StringValue(<<Blank, "q">>))
  /\ http.key = Given("gsk")
  /\ http.called = <<"notOk">>
  /\ http.status = 200
  /\ http.body.response = MockAfterError

\* initializeSampleData has run to its end
SeedingDone == loader.script = "init-db" /\ loader.pc = "exited" /\ loader.exitCode = 0

SeededLoansNotCompleted == {l \in loans : l.loanStatus # "completed"}

\* C27: the loan status that initializeSampleData writes for its active loans
\* is the one getDashboardMetrics filters on: after initializeSampleData has run
\* on an empty store, activeLoans is the number of the seeded loans not marked
\* completed and totalDisbursed is the sum of their amounts.
C27_SeededActiveLoansCounted ==
  (IsDashboard /\ SeedingDone) =>
    /\ response.value.activeLoans = Cardinality(SeededLoansNotCompleted)
    /\ response.value.totalDisbursed =
         BagCardinality([l \in SeededLoansNotCompleted |-> l.amount])

\* the batches handed to Supabase so far
SupabaseAttempts == {k \in DOMAIN writes : writes[k].target = "supabase"}

\* C28: toSnakeCase maps every field key of the records built by the loader of
\* both databases to the column that the schema declares for the field, so
\* every insert into Supabase addresses only columns that exist.
C28_SnakeKeysAreColumns ==
  \A k \in SupabaseAttempts :
    LET table == EntityTypes[writes[k].entity]
    IN  \A key \in KeysOf(table) :
          \E s \in SchemaOf(table) : s.field = key /\ s.column = ToSnakeCase(key)

IsCsvLoader == loader.script \in {"replit", "dual"}

Targets == {"replit", "supabase"}

BatchesOf(target) == IF target = "replit" THEN replitBatches ELSE supabaseBatches

\* the attempts on the batches of an entity type in a target, in their order
AttemptsOn(e, target) ==
  SelectSeq(writes, LAMBDA a : a.entity = e /\ a.target = target)

\* C24: in insertInBatches of both CSV loaders the batches of an entity type
\* are written one after another in input order; when the write of a batch
\* fails, no later batch of that entity type is written, the failed batch is
\* not retried, and the batches already written stay in place.
C24_BatchesInOrderAbortOnFailure ==
  IsCsvLoader =>
    /\ \A e \in Entities, target \in Targets :
         LET A == AttemptsOn(e, target)
         IN  /\ A # <<>> => A[1].lo = 1
             /\ \A k \in 1..(Len(A) - 1) : A[k].ok /\ A[k + 1].lo = A[k].hi + 1
    /\ \A k \in DOMAIN writes :
         /\ ~writes[k].ok =>
              /\ \A j \in DOMAIN writes : j > k => writes[j].entity # writes[k].entity
              /\ loader.pc = "exited" /\ loader.exitCode = 1
         /\ writes[k].ok =>
              [lo |-> writes[k].lo, hi |-> writes[k].hi]
                \in BatchesOf(writes[k].target)[writes[k].entity]

C24_Witness ==
  /\ IsCsvLoader
  /\ loader.pc = "exited"
  /\ \E e \in Entities :
       LET A == AttemptsOn(e, "replit")
       IN  /\ Len(A) = 2
           /\ A[1].ok /\ ~A[2].ok
           /\ [lo |-> A[1].lo, hi |-> A[1].hi] \in replitBatches[e]
           /\ [lo |-> A[2].lo, hi |-> A[2].hi] \notin replitBatches[e]
           /\ loader.files[e] > 2 * BATCH_SIZE

IsDryRun == loader.script = "dual" /\ loader.dryRun

\* C25: when the loader of both databases runs with --dry-run, no row is
\* inserted into or deleted from either database: clearDatabases and
\* insertInBatches write nothing for any entity type, while the CSV files are
\* read as in a run that writes: each file before its insertInBatches, and all
\* of them in a run that ends with status 0.
C25_DryRunWritesNothing ==
  IsDryRun =>
    /\ writes = <<>>
    /\ replitBatches = loader.before
    /\ supabaseBatches = loader.before
    /\ loader.pc = "insert" => loader.read = 1..loader.entity
    /\ loader.pc = "read" => loader.read = 1..(loader.entity - 1)
    /\ (loader.pc = "exited" /\ loader.exitCode = 0) => loader.read = Entities

C25_Witness ==
  /\ IsDryRun
  /\ loader.pc = "exited" /\ loader.exitCode = 0
  /\ loader.read = Entities
  /\ loader.before = OldBatches
  /\ replitBatches = OldBatches /\ supabaseBatches = OldBatches
  /\ \E e \in Entities : loader.files[e] > BATCH_SIZE

\* the batches that the run has put into a target
Loaded(target, e) == BatchesOf(target)[e] \ {OldRows}

FailedAtSupabase(e, b) ==
  /\ writes # <<>>
  /\ writes[Len(writes)] = Attempt(e, "supabase", b, FALSE)

IsInitDb == loader.script = "init-db"

\* the store holds all the sample data
SampleDataComplete ==
  /\ Range(SeedBranches) \subseteq branches
  /\ Range(SeedOfficers) \subseteq officers
  /\ \A i \in 1..SeedCustomerCount :
       /\ \E c \in customers : c.customerId = i
       /\ \E a \in aiCustomerFeatures : a.customerId = i
  /\ \A i \in 1..(SeedCustomerCount * SeedLoansPerCustomer) :
       \E l \in loans : l.loanId = i
  /\ \A k \in 1..SeedDailyCount : BagIn(SeedDaily(k), dailyBranchPerformance)
  /\ SeedFraudSignals \subseteq fraudSignals

CeilDiv(n, size) == (n + size - 1) \div size

\* the writers of batches: the two CSV loaders into Replit, the loader of both
\* databases into Supabase, initializeSampleData into the storage
BatchTargets == {"replit", "supabase", "storage"}

\* the targets that the running script writes to
TargetsOfRun ==
  IF loader.script = "replit" THEN {"replit"}
  ELSE IF loader.script = "dual" THEN {"replit", "supabase"}
  ELSE {"storage"}

\* the number of input records of an entity type
InputSize(e) == IF IsInitDb THEN SeedDailyCount ELSE loader.files[e]

\* every attempt on e was made and has succeeded
WrittenOut(e) ==
  IF IsInitDb
    THEN /\ e = DailyEntity
         /\ loader.pc \in {"aiFeatures", "fraudSignals"}
    ELSE /\ ~loader.dryRun
         /\ \/ loader.entity > e
            \/ loader.pc = "exited" /\ loader.exitCode = 0

\* C30: for an input of n records, insertInBatches and the batching of the
\* daily performance in initializeSampleData write ceil(n / 500) batches of at
\* most 500 records each, which together hold every input record once, in
\* input order; for n = 0 nothing is written.
C30_BatchesCoverInputOnce ==
  \A e \in Entities, target \in BatchTargets :
    LET A == AttemptsOn(e, target)
        n == InputSize(e)
    IN  /\ \A k \in DOMAIN A :
             /\ A[k].lo = (k - 1) * BATCH_SIZE + 1
             /\ A[k].hi = Min(k * BATCH_SIZE, n)
             /\ A[k].lo <= A[k].hi
             /\ A[k].hi - A[k].lo + 1 <= BATCH_SIZE
        /\ target \notin TargetsOfRun => A = <<>>
        /\ (WrittenOut(e) /\ target \in TargetsOfRun) =>
             /\ Len(A) = CeilDiv(n, BATCH_SIZE)
             /\ n = 0 => A = <<>>
             /\ n > 0 => A[Len(A)].hi = n

C30_Witness ==
  /\ loader.script = "dual" /\ loader.pc = "exited" /\ loader.exitCode = 0
  /\ \E e \in Entities :
       /\ loader.files[e] = 2 * BATCH_SIZE + 1
       /\ Len(AttemptsOn(e, "replit")) = 3
       /\ Len(AttemptsOn(e, "supabase")) = 3
       /\ AttemptsOn(e, "supabase")[3].lo = 2 * BATCH_SIZE + 1
       /\ AttemptsOn(e, "supabase")[3].hi = 2 * BATCH_SIZE + 1

====
